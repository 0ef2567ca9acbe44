------------------------- MODULE NodesDofx_proofs --------------------------
(***************************************************************************)
(* Theorems about the renumbering of degrees of freedom, for any number of *)
(* ranks, any nodes, any partition and any constraints; and about the      *)
(* merging of solutions in the model with the values of the constraints.   *)
(***************************************************************************)
EXTENDS NodalConstraints, Reductions, Integers, FiniteSetTheorems, TLAPS

(***************************************************************************)
(* A nonempty set of natural numbers has a least element.                  *)
(***************************************************************************)
LEMMA LeastElement ==
  ASSUME NEW T \in SUBSET Nat, T # {}
  PROVE  \E x \in T : \A y \in T : x <= y
<1> DEFINE Below == {0..(n-1) : n \in T}
<1>1. IsWellFoundedOn(StrictSubsetOrdering(Nat), FiniteSubsetsOf(Nat))
  BY FS_StrictSubsetOrderingWellFounded
<1>2. Below \subseteq FiniteSubsetsOf(Nat)
  <2>1. \A n \in Nat : IsFiniteSet(0..(n-1))
    BY FS_Interval
  <2> QED BY <2>1 DEF FiniteSubsetsOf
<1>3. Below # {}
  OBVIOUS
<1>4. PICK b \in Below : \A c \in Below : <<c, b>> \notin StrictSubsetOrdering(Nat)
  <2> HIDE DEF Below
  <2> QED BY <1>1, <1>2, <1>3, WFMin
<1>5. PICK x \in T : b = 0..(x-1)
  OBVIOUS
<1>6. ASSUME NEW y \in T, y < x
      PROVE  FALSE
  <2>1. 0..(y-1) \subseteq 0..(x-1) /\ 0..(y-1) # 0..(x-1)
    <3>1. y \in 0..(x-1) /\ y \notin 0..(y-1)
      BY <1>6
    <3>2. 0..(y-1) \subseteq 0..(x-1)
      BY <1>6
    <3> QED BY <3>1, <3>2
  <2>2. 0..(y-1) \in SUBSET Nat /\ 0..(x-1) \in SUBSET Nat
    OBVIOUS
  <2>3. <<0..(y-1), b>> \in StrictSubsetOrdering(Nat)
    BY <2>1, <2>2, <1>5 DEF StrictSubsetOrdering
  <2> QED BY <2>3, <1>4
<1> QED BY <1>6

(***************************************************************************)
(* The recursive function exists: its domain grows one index at a time.    *)
(***************************************************************************)
LEMMA RunningSumExists ==
  ASSUME NEW w, NEW n \in Nat
  PROVE  \E f : f = [i \in 0..n |-> IF i = 0 THEN 0 ELSE f[i-1] + w[i-1]]
<1> DEFINE IsSum(f, m) == f = [i \in 0..m |-> IF i = 0 THEN 0 ELSE f[i-1] + w[i-1]]
<1> DEFINE Bad == {m \in Nat : ~ \E f : IsSum(f, m)}
<1> SUFFICES Bad = {}
  OBVIOUS
<1> SUFFICES ASSUME Bad # {} PROVE FALSE
  OBVIOUS
<1>1. PICK m \in Bad : \A k \in Bad : m <= k
  <2>1. Bad \in SUBSET Nat
    OBVIOUS
  <2> HIDE DEF Bad
  <2> QED BY <2>1, LeastElement
<1>2. IsSum([i \in 0..0 |-> 0], 0)
  OBVIOUS
<1>3. m # 0
  BY <1>2
<1>4. PICK f : IsSum(f, m-1)
  BY <1>1, <1>3
<1> DEFINE g == [i \in 0..m |-> IF i = m THEN f[m-1] + w[m-1] ELSE f[i]]
<1>5. IsSum(g, m)
  <2>1. ASSUME NEW i \in 0..m
        PROVE  g[i] = IF i = 0 THEN 0 ELSE g[i-1] + w[i-1]
    <3>1. CASE i = m
      BY <3>1, <1>3
    <3>2. CASE i # m
      <4>1. i \in 0..(m-1)
        BY <3>2
      <4>2. f[i] = IF i = 0 THEN 0 ELSE f[i-1] + w[i-1]
        BY <4>1, <1>4
      <4>3. i # 0 => i-1 \in 0..m /\ i-1 # m
        BY <4>1
      <4> QED BY <4>1, <4>2, <4>3, <3>2
    <3> QED BY <3>1, <3>2
  <2> QED BY <2>1
<1> QED BY <1>5

(***************************************************************************)
(* The equations of the loop.                                              *)
(***************************************************************************)
LEMMA RunningSumFcn ==
  ASSUME NEW w, NEW n \in Nat
  PROVE  \E f : /\ f = [i \in 0..n |-> IF i = 0 THEN 0 ELSE f[i-1] + w[i-1]]
                /\ RunningSum(w, n) = f[n]
<1> DEFINE F == CHOOSE f : f = [i \in 0..n |-> IF i = 0 THEN 0 ELSE f[i-1] + w[i-1]]
<1>1. F = [i \in 0..n |-> IF i = 0 THEN 0 ELSE F[i-1] + w[i-1]]
  BY RunningSumExists
<1>2. RunningSum(w, n) = F[n]
  BY DEF RunningSum
<1> QED BY <1>1, <1>2

(***************************************************************************)
(* Two such tables agree wherever both are defined.                        *)
(***************************************************************************)
TabulatesSum(f, w, n) ==
  \A i \in 0..n : f[i] = IF i = 0 THEN 0 ELSE f[i-1] + w[i-1]

LEMMA RunningSumUnique ==
  ASSUME NEW w, NEW m \in Nat, NEW n \in Nat, m <= n, NEW f, NEW g,
         TabulatesSum(f, w, m), TabulatesSum(g, w, n)
  PROVE  \A i \in 0..m : f[i] = g[i]
<1> USE DEF TabulatesSum
<1> DEFINE Bad == {i \in 0..m : f[i] # g[i]}
<1> SUFFICES ASSUME Bad # {} PROVE FALSE
  OBVIOUS
<1>1. PICK i \in Bad : \A j \in Bad : i <= j
  <2>1. Bad \in SUBSET Nat
    OBVIOUS
  <2> HIDE DEF Bad
  <2> QED BY <2>1, LeastElement
<1>2. i \in 0..m /\ i \in 0..n
  OBVIOUS
<1>3. CASE i = 0
  BY <1>2, <1>3
<1>4. CASE i # 0
  <2>1. i-1 \in 0..m /\ i-1 < i /\ i \in Nat
    BY <1>2, <1>4
  <2>2. i-1 \notin Bad
    <3> HIDE DEF Bad
    <3> QED BY <1>1, <2>1
  <2>3. f[i-1] = g[i-1]
    BY <2>1, <2>2
  <2>4. f[i] = f[i-1] + w[i-1] /\ g[i] = g[i-1] + w[i-1]
    BY <1>2, <1>4
  <2> QED BY <2>3, <2>4
<1> QED BY <1>3, <1>4

(***************************************************************************)
(* The equations of the loop: it starts at 0, and each turn adds one       *)
(* count.                                                                  *)
(***************************************************************************)
LEMMA RunningSumZero ==
  ASSUME NEW w
  PROVE  RunningSum(w, 0) = 0
BY RunningSumFcn

LEMMA RunningSumStep ==
  ASSUME NEW w, NEW n \in Nat
  PROVE  RunningSum(w, n+1) = RunningSum(w, n) + w[n]
<1>1. PICK f : /\ f = [i \in 0..n |-> IF i = 0 THEN 0 ELSE f[i-1] + w[i-1]]
               /\ RunningSum(w, n) = f[n]
  BY RunningSumFcn
<1>2. PICK g : /\ g = [i \in 0..(n+1) |-> IF i = 0 THEN 0 ELSE g[i-1] + w[i-1]]
               /\ RunningSum(w, n+1) = g[n+1]
  BY RunningSumFcn, n+1 \in Nat
<1>3. f[n] = g[n]
  <2>1. n+1 \in Nat /\ n <= n+1 /\ n \in 0..n
    OBVIOUS
  <2>2. TabulatesSum(f, w, n)
    BY <1>1 DEF TabulatesSum
  <2>3. TabulatesSum(g, w, n+1)
    BY <1>2 DEF TabulatesSum
  <2>4. \A i \in 0..n : f[i] = g[i]
    BY <2>1, <2>2, <2>3, RunningSumUnique
  <2> QED BY <2>1, <2>4
<1>4. g[n+1] = g[n] + w[n]
  <2>1. n+1 \in 0..(n+1) /\ n+1 # 0 /\ (n+1)-1 = n
    OBVIOUS
  <2> QED BY <1>2, <2>1
<1> QED BY <1>1, <1>2, <1>3, <1>4

(***************************************************************************)
(* Sums of natural numbers are natural numbers, whatever prefix is taken.  *)
(***************************************************************************)
LEMMA RunningSumNat ==
  ASSUME NEW N \in Nat, NEW w \in [0..(N-1) -> Nat]
  PROVE  \A n \in 0..N : RunningSum(w, n) \in Nat
<1> DEFINE Bad == {n \in 0..N : RunningSum(w, n) \notin Nat}
<1> SUFFICES ASSUME Bad # {} PROVE FALSE
  OBVIOUS
<1>1. PICK n \in Bad : \A k \in Bad : n <= k
  <2>1. Bad \in SUBSET Nat
    OBVIOUS
  <2> HIDE DEF Bad
  <2> QED BY <2>1, LeastElement
<1>2. n # 0
  BY RunningSumZero
<1>3. n-1 \in Nat /\ n-1 \in 0..(N-1) /\ n-1 \in 0..N /\ (n-1)+1 = n
  BY <1>2
<1>4. n-1 \notin Bad
  BY <1>1, <1>3
<1>5. RunningSum(w, n-1) \in Nat
  BY <1>3, <1>4
<1>6. RunningSum(w, n) = RunningSum(w, n-1) + w[n-1]
  BY <1>3, RunningSumStep
<1>7. w[n-1] \in Nat
  BY <1>3
<1>8. RunningSum(w, n) \in Nat
  BY <1>5, <1>6, <1>7
<1> QED BY <1>8

(***************************************************************************)
(* The blocks [RunningSum(i), RunningSum(i) + w[i]) follow one another.    *)
(***************************************************************************)
LEMMA RunningSumOrdered ==
  ASSUME NEW N \in Nat, NEW w \in [0..(N-1) -> Nat]
  PROVE  \A n \in 0..N, i \in 0..(N-1) :
            i < n => RunningSum(w, i) + w[i] <= RunningSum(w, n)
<1> DEFINE Bad == {n \in 0..N : \E i \in 0..(N-1) :
                     i < n /\ ~ (RunningSum(w, i) + w[i] <= RunningSum(w, n))}
<1> SUFFICES ASSUME Bad # {} PROVE FALSE
  OBVIOUS
<1>1. PICK n \in Bad : \A k \in Bad : n <= k
  <2>1. Bad \in SUBSET Nat
    OBVIOUS
  <2> HIDE DEF Bad
  <2> QED BY <2>1, LeastElement
<1>2. PICK i \in 0..(N-1) : i < n /\ ~ (RunningSum(w, i) + w[i] <= RunningSum(w, n))
  OBVIOUS
<1>3. n-1 \in Nat /\ n-1 \in 0..(N-1) /\ n-1 \in 0..N /\ (n-1)+1 = n
  BY <1>2
<1>4. n-1 \notin Bad
  BY <1>1, <1>3
<1>5. RunningSum(w, n) = RunningSum(w, n-1) + w[n-1]
  BY <1>3, RunningSumStep
<1>6. w[n-1] \in Nat /\ w[i] \in Nat /\ RunningSum(w, i) \in Nat /\ RunningSum(w, n-1) \in Nat
  <2>1. \A k \in 0..N : RunningSum(w, k) \in Nat
    BY RunningSumNat
  <2>2. i \in 0..N
    OBVIOUS
  <2> QED BY <1>3, <2>1, <2>2
<1>7. CASE i = n-1
  BY <1>2, <1>5, <1>6, <1>7
<1>8. CASE i < n-1
  <2>1. RunningSum(w, i) + w[i] <= RunningSum(w, n-1)
    BY <1>3, <1>4, <1>8
  <2> QED BY <1>2, <1>5, <1>6, <2>1
<1> QED BY <1>2, <1>3, <1>7, <1>8

(***************************************************************************)
(* and they leave no number out.                                           *)
(***************************************************************************)
LEMMA RunningSumCovers ==
  ASSUME NEW N \in Nat, NEW w \in [0..(N-1) -> Nat]
  PROVE  \A n \in 0..N : \A x \in Nat : x < RunningSum(w, n) =>
            \E i \in 0..(N-1) : /\ i < n
                                /\ RunningSum(w, i) <= x
                                /\ x < RunningSum(w, i) + w[i]
<1> DEFINE Covered(n) == \A x \in Nat : x < RunningSum(w, n) =>
                            \E i \in 0..(N-1) : /\ i < n
                                                /\ RunningSum(w, i) <= x
                                                /\ x < RunningSum(w, i) + w[i]
<1> DEFINE Bad == {n \in 0..N : ~ Covered(n)}
<1> SUFFICES ASSUME Bad # {} PROVE FALSE
  OBVIOUS
<1>1. PICK n \in Bad : \A k \in Bad : n <= k
  <2>1. Bad \in SUBSET Nat
    OBVIOUS
  <2> HIDE DEF Bad
  <2> QED BY <2>1, LeastElement
<1>2. n # 0
  BY RunningSumZero
<1>3. n-1 \in Nat /\ n-1 \in 0..(N-1) /\ n-1 \in 0..N /\ (n-1)+1 = n
  BY <1>2
<1>4. Covered(n-1)
  BY <1>1, <1>3
<1>5. RunningSum(w, n) = RunningSum(w, n-1) + w[n-1]
  BY <1>3, RunningSumStep
<1>6. w[n-1] \in Nat /\ RunningSum(w, n-1) \in Nat
  BY <1>3, RunningSumNat
<1>7. Covered(n)
  <2> SUFFICES ASSUME NEW x \in Nat, x < RunningSum(w, n)
               PROVE  \E i \in 0..(N-1) : /\ i < n
                                          /\ RunningSum(w, i) <= x
                                          /\ x < RunningSum(w, i) + w[i]
    OBVIOUS
  <2>1. CASE x < RunningSum(w, n-1)
    <3>1. PICK i \in 0..(N-1) : /\ i < n-1
                               /\ RunningSum(w, i) <= x
                               /\ x < RunningSum(w, i) + w[i]
      BY <1>4, <2>1
    <3>2. i < n
      BY <3>1, <1>3
    <3> QED BY <3>1, <3>2
  <2>2. CASE ~ (x < RunningSum(w, n-1))
    <3>1. RunningSum(w, n-1) <= x /\ x < RunningSum(w, n-1) + w[n-1] /\ n-1 < n
      BY <2>2, <1>5, <1>6, <1>3
    <3> QED BY <3>1, <1>3
  <2> QED BY <2>1, <2>2
<1> QED BY <1>7

(***************************************************************************)
(* A nonempty finite set of integers has a largest element: MaxOf finds it. *)
(***************************************************************************)
LEMMA MaxOfFinite ==
  ASSUME NEW S \in SUBSET Int, IsFiniteSet(S), S # {}
  PROVE  MaxOf(S) \in S /\ \A x \in S : x <= MaxOf(S)
<1> DEFINE Above(x) == {y \in S : x < y}
<1> DEFINE T == {Above(x) : x \in S}
<1>1. IsWellFoundedOn(StrictSubsetOrdering(Int), FiniteSubsetsOf(Int))
  BY FS_StrictSubsetOrderingWellFounded
<1>2. T \subseteq FiniteSubsetsOf(Int)
  <2>1. ASSUME NEW x \in S
        PROVE  IsFiniteSet(Above(x)) /\ Above(x) \subseteq Int
    BY FS_Subset, Above(x) \subseteq S
  <2> QED BY <2>1 DEF FiniteSubsetsOf
<1>3. T # {}
  OBVIOUS
<1>4. PICK b \in T : \A c \in T : <<c, b>> \notin StrictSubsetOrdering(Int)
  <2> HIDE DEF T
  <2> QED BY <1>1, <1>2, <1>3, WFMin
<1>5. PICK m \in S : b = Above(m)
  OBVIOUS
<1>6. ASSUME NEW y \in S, m < y
      PROVE  FALSE
  <2>1. Above(y) \subseteq Above(m) /\ Above(y) # Above(m)
    <3>1. \A z \in Above(y) : z \in Int /\ y < z /\ z \in S
      OBVIOUS
    <3>2. \A z \in Above(y) : m < z
      BY <3>1, <1>6
    <3>3. y \in Above(m) /\ y \notin Above(y)
      BY <1>6
    <3> QED BY <3>1, <3>2, <3>3
  <2>2. <<Above(y), Above(m)>> \in StrictSubsetOrdering(Int)
    BY <2>1 DEF StrictSubsetOrdering
  <2> QED BY <2>2, <1>4, <1>5
<1>7. m \in S /\ \A x \in S : x <= m
  BY <1>6
<1> QED BY <1>7 DEF MaxOf

(***************************************************************************)
(* MinOf is the least element of a nonempty set of natural numbers.        *)
(***************************************************************************)
LEMMA MinOfNat ==
  ASSUME NEW S \in SUBSET Nat, S # {}
  PROVE  MinOf(S) \in S /\ \A x \in S : MinOf(S) <= x
BY LeastElement DEF MinOf

LEMMA IntervalGrows ==
  ASSUME NEW n \in Nat, NEW m \in Nat, n <= m
  PROVE  0..(n - 1) \subseteq 0..(m - 1)
<1> SUFFICES ASSUME NEW x \in 0..(n - 1) PROVE x \in 0..(m - 1)
  OBVIOUS
<1>1. x \in Int /\ 0 <= x /\ x <= n - 1
  OBVIOUS
<1>2. x <= m - 1
  BY <1>1
<1> QED BY <1>1, <1>2

LEMMA IntervalNat ==
  ASSUME NEW n \in Nat
  PROVE  0..(n - 1) \subseteq Nat
<1> SUFFICES ASSUME NEW x \in 0..(n - 1) PROVE x \in Nat
  OBVIOUS
<1> QED OBVIOUS

(***************************************************************************)
(* The image of a finite set is finite.                                    *)
(***************************************************************************)
LEMMA FiniteImage ==
  ASSUME NEW S, IsFiniteSet(S), NEW f
  PROVE  IsFiniteSet({f[x] : x \in S})
<1> DEFINE T == {f[x] : x \in S}
<1> DEFINE g == [x \in S |-> f[x]]
<1>1. g \in Surjection(S, T)
  BY DEF Surjection
<1> HIDE DEF g, T
<1>2. IsFiniteSet(T)
  BY <1>1, FS_Surjection
<1> QED BY <1>2 DEF T

-----------------------------------------------------------------------------
LEMMA RankFinite == IsFiniteSet(Rank) /\ Rank # {} /\ Rank \subseteq Nat
<1>1. 0 \in Int /\ NumProcs - 1 \in Int /\ NumProcs >= 1
  BY SizeAssumption
<1>2. IsFiniteSet(0..(NumProcs - 1))
  BY <1>1, FS_Interval
<1>3. IsFiniteSet(Rank)
  BY <1>2 DEF Rank
<1>4. 0 \in Rank /\ \A r \in Rank : r \in Nat
  BY <1>1, SizeAssumption DEF Rank
<1> QED BY <1>3, <1>4

\* A dof set of one copy is finite, so it has a size.
LEMMA DofSubsetSize ==
  ASSUME NEW s \in Sid, NEW F \in SUBSET Dof(s)
  PROVE  IsFiniteSet(F) /\ Cardinality(F) \in Nat
<1>1. GSize[s] \in Nat
  BY ConstraintAssumption
<1>2. IsFiniteSet(Dof(s))
  BY <1>1, FS_Interval DEF Dof
<1> QED BY <1>2, FS_Subset, FS_CardinalityType

-----------------------------------------------------------------------------
(***************************************************************************)
(* Type correctness.  The type of a list that a clone has picked up rests  *)
(* on two facts that are not types: the table is as wide as the widest     *)
(* copy, and a rank that has still to read its clones reads the table of   *)
(* the set that it is numbering.                                           *)
(***************************************************************************)
NodeTypes ==
  /\ Copies(active, BOOLEAN)
  /\ Copies(fset, SUBSET Nat)
  /\ \A r \in Rank : \A s \in Holds[r] : fset[r][s] \subseteq Dof(s)
  /\ Copies(indexingupdate, BOOLEAN)
  /\ Copies(clone, BOOLEAN)

SizeTypes ==
  /\ DOMAIN size = Rank
  /\ \A r \in Rank : size[r] \in [SetEnum -> [Holds[r] -> Nat]]
  /\ \A r \in Rank : \A s \in Holds[r] : size[r]["g"][s] = GSize[s]

ListTypes ==
  /\ DOMAIN doflist = Rank
  /\ \A r \in Rank : DOMAIN doflist[r] = SetEnum
  /\ \A r \in Rank, k \in SetEnum : DOMAIN doflist[r][k] = Holds[r]
  /\ \A r \in Rank, k \in SetEnum : \A s \in Holds[r] :
       doflist[r][k][s] \in [0..(size[r][k][s] - 1) -> Int]

CountTypes ==
  /\ dofcount \in [Rank -> Nat]
  /\ minranks \in [Sid -> Nat]
  /\ alldofcount \in [Rank -> Nat]
  /\ maxdofspernode \in Nat

TableWide ==
  \A r \in Rank : \A s \in Holds[r] :
    /\ pc[r] = "truedofs" => size[r][setenum[r]][s] <= maxdofspernode
    /\ pc[r] = "update clones" =>
         \A j \in 0..(size[r][setenum[r]][s] - 1) : alltruedofs[s][j] \in Int

TypeInv ==
  /\ pc \in [Rank -> PC]
  /\ setenum \in [Rank -> SetEnum]
  /\ mask \subseteq Sid
  /\ relaxed \subseteq Transients
  /\ NodeTypes
  /\ SizeTypes
  /\ ListTypes
  /\ CountTypes
  /\ TableWide

LEMMA TypeInvImpliesTypeOK == TypeInv => TypeOK
BY DEF TypeInv, TypeOK, NodeTypes, SizeTypes, ListTypes, CountTypes

LEMMA HoldsType == \A r \in Rank : Holds[r] \subseteq Sid
BY PartitionAssumption

LEMMA TypeInvInit == Init => TypeInv
<1> SUFFICES ASSUME Init PROVE TypeInv
  OBVIOUS
<1> USE DEF Init
<1>1. pc \in [Rank -> PC] /\ setenum \in [Rank -> SetEnum]
  BY DEF PC, SetEnum
<1>2. mask \subseteq Sid /\ relaxed \subseteq Transients
  OBVIOUS
<1>3. NodeTypes
  <2>1. \A s \in Sid : Dof(s) \subseteq Nat
    BY ConstraintAssumption DEF Dof
  <2>2. Copies(fset, SUBSET Nat)
    BY <2>1, HoldsType DEF Copies
  <2>3. \A r \in Rank : \A s \in Holds[r] : fset[r][s] \subseteq Dof(s)
    OBVIOUS
  <2>4. Copies(active, BOOLEAN) /\ Copies(indexingupdate, BOOLEAN) /\ Copies(clone, BOOLEAN)
    BY DEF Copies
  <2> QED BY <2>2, <2>3, <2>4 DEF NodeTypes
<1>4. SizeTypes
  <2>1. \A r \in Rank : \A s \in Holds[r] : GSize[s] \in Nat
    BY HoldsType, ConstraintAssumption
  <2> QED BY <2>1 DEF SizeTypes, SetEnum
<1>5. ListTypes
  BY DEF ListTypes, UNDEF
<1>6. CountTypes
  BY SizeAssumption DEF CountTypes
<1>7. TableWide
  BY DEF TableWide
<1> QED BY <1>1, <1>2, <1>3, <1>4, <1>5, <1>6, <1>7 DEF TypeInv

LEMMA MaskedActiveType ==
  ASSUME TypeInv, NEW r \in Rank, NEW s \in Holds[r]
  PROVE  MaskedActive(r, s) \in BOOLEAN
<1>1. active[r][s] \in BOOLEAN
  BY DEF TypeInv, NodeTypes, Copies
<1>2. (s \in mask) \in BOOLEAN
  OBVIOUS
<1> QED BY <1>1, <1>2, Zenon DEF MaskedActive

LEMMA UpdateConstraintsType ==
  ASSUME TypeInv, NEW r \in Rank, UpdateConstraints(r)
  PROVE  TypeInv'
<1> USE DEF UpdateConstraints, Goto, envvars, commvars, TypeInv
<1>1. pc' \in [Rank -> PC]
  BY DEF PC
<1>2. ASSUME NEW s \in Holds[r]
      PROVE  /\ MaskedActive(r, s) \in BOOLEAN
             /\ ConstrainedFSet(r, s) \subseteq Dof(s)
             /\ ConstrainedFSet(r, s) \subseteq Nat
             /\ AsksForIndexing(r, s) \in BOOLEAN
  <2>1. s \in Sid
    BY HoldsType
  <2>2. Dof(s) \subseteq Nat
    BY <2>1, ConstraintAssumption DEF Dof
  <2>3. active[r][s] \in BOOLEAN /\ fset[r][s] \subseteq Dof(s)
    BY DEF NodeTypes, Copies
  <2>4. MaskedActive(r, s) \in BOOLEAN
    BY MaskedActiveType
  <2>5. MaskedFSet(r, s) \subseteq Dof(s)
    BY <2>3, <2>4 DEF MaskedFSet
  <2>6. RelaxedDofs(s) \subseteq Dof(s)
    BY <2>1, ConstraintAssumption DEF RelaxedDofs
  <2>7. ConstrainedFSet(r, s) \subseteq Dof(s)
    BY <2>5, <2>6 DEF ConstrainedFSet
  <2>8. AsksForIndexing(r, s) \in BOOLEAN
    BY DEF AsksForIndexing
  <2> QED BY <2>2, <2>4, <2>7, <2>8
<1>3. NodeTypes'
  <2>1. Copies(active, BOOLEAN)'
    BY <1>2 DEF NodeTypes, Copies
  <2>2. Copies(fset, SUBSET Nat)' /\ \A q \in Rank : \A s \in Holds[q] : fset'[q][s] \subseteq Dof(s)
    BY <1>2 DEF NodeTypes, Copies
  <2>3. Copies(indexingupdate, BOOLEAN)'
    BY DEF NodeTypes, Copies
  <2>4. Copies(clone, BOOLEAN)'
    BY DEF NodeTypes, Copies
  <2> QED BY <2>1, <2>2, <2>3, <2>4 DEF NodeTypes
<1>4. SizeTypes' /\ ListTypes' /\ CountTypes'
  BY DEF SizeTypes, ListTypes, CountTypes
<1>5. TableWide'
  BY DEF TableWide
<1> QED BY <1>1, <1>3, <1>4, <1>5

LEMMA SetCloneType ==
  ASSUME TypeInv, NEW r \in Rank, SetClone(r)
  PROVE  TypeInv'
<1> USE DEF SetClone, Goto, envvars, nodevars, commvars, TypeInv
<1>1. pc' \in [Rank -> PC] /\ setenum' \in [Rank -> SetEnum]
  BY DEF PC, SetEnum
<1>2. NodeTypes'
  <2>1. Copies(clone, BOOLEAN)'
    BY DEF NodeTypes, Copies
  <2> QED BY <2>1 DEF NodeTypes, Copies
<1>3. SizeTypes' /\ ListTypes' /\ CountTypes'
  BY DEF SizeTypes, ListTypes, CountTypes
<1>4. TableWide'
  BY DEF TableWide
<1> QED BY <1>1, <1>2, <1>3, <1>4

LEMMA InitSetNat ==
  ASSUME TypeInv, NEW r \in Rank, NEW k \in SetEnum, NEW s \in Holds[r]
  PROVE  InitSet(r, k, s) \in Nat
<1>1. s \in Sid
  BY HoldsType
<1>2. GSize[s] \in Nat
  BY <1>1, ConstraintAssumption
<1>3. Cardinality(fset[r][s]) \in Nat /\ Cardinality(Dof(s) \ fset[r][s]) \in Nat
  <2>1. fset[r][s] \subseteq Dof(s) /\ Dof(s) \ fset[r][s] \subseteq Dof(s)
    BY DEF TypeInv, NodeTypes
  <2> QED BY <1>1, <2>1, DofSubsetSize
<1> QED BY <1>2, <1>3 DEF InitSet, SetEnum

\* What rank r counts for each node is a table of naturals, so that its running
\* sums are naturals too.
LEMMA OwnDofsType ==
  ASSUME TypeInv, NEW r \in Rank, NEW k \in SetEnum
  PROVE  /\ OwnDofs(r, k) \in [0..(NumNodes - 1) -> Nat]
         /\ \A n \in 0..NumNodes : RunningSum(OwnDofs(r, k), n) \in Nat
<1>1. OwnDofs(r, k) \in [0..(NumNodes - 1) -> Nat]
  BY InitSetNat DEF OwnDofs, Sid
<1>2. NumNodes \in Nat
  BY SizeAssumption
<1> HIDE DEF OwnDofs
<1> QED BY <1>1, <1>2, RunningSumNat

LEMMA DistributeDofsType ==
  ASSUME TypeInv, NEW r \in Rank, DistributeDofs(r)
  PROVE  TypeInv'
<1> USE DEF TypeInv
<1> DEFINE k == setenum[r]
<1>0. k \in SetEnum
  OBVIOUS
<1> HIDE DEF k
<1>a. /\ pc[r] = "distribute"
      /\ pc' = [pc EXCEPT ![r] = "counts"]
      /\ size' = [size EXCEPT ![r][k] = [s \in Holds[r] |-> InitSet(r, k, s)]]
      /\ doflist' = [doflist EXCEPT ![r][k] = [s \in Holds[r] |->
           IF clone[r][s] THEN CloneDofs(r, k, s) ELSE LocalDofs(r, k, s)]]
      /\ dofcount' = [dofcount EXCEPT ![r] = RunningSum(OwnDofs(r, k), NumNodes)]
      /\ UNCHANGED <<setenum, envvars, nodevars, clone, commvars>>
  BY DEF DistributeDofs, Goto, k
<1>1. pc' \in [Rank -> PC]
  BY <1>a DEF PC
<1>2. NodeTypes'
  BY <1>a DEF NodeTypes, Copies, nodevars
<1>3. \A s \in Holds[r] : InitSet(r, k, s) \in Nat
  BY <1>0, InitSetNat
<1>4. SizeTypes'
  <2>1. DOMAIN size' = Rank /\ \A q \in Rank : size'[q] \in [SetEnum -> [Holds[q] -> Nat]]
    BY <1>0, <1>a, <1>3 DEF SizeTypes
  <2>2. \A q \in Rank : \A s \in Holds[q] : size'[q]["g"][s] = GSize[s]
    <3> SUFFICES ASSUME NEW q \in Rank, NEW s \in Holds[q]
                 PROVE  size'[q]["g"][s] = GSize[s]
      OBVIOUS
    <3>1. CASE q = r /\ k = "g"
      BY <1>0, <1>a, <3>1 DEF SizeTypes, InitSet
    <3>2. CASE ~ (q = r /\ k = "g")
      BY <1>0, <1>a, <3>2 DEF SizeTypes, SetEnum
    <3> QED BY <3>1, <3>2
  <2> QED BY <2>1, <2>2 DEF SizeTypes
<1>5. ListTypes'
  <2>1. DOMAIN doflist' = Rank /\ (\A q \in Rank : DOMAIN doflist'[q] = SetEnum)
    BY <1>0, <1>a DEF ListTypes
  <2>2. \A q \in Rank, l \in SetEnum : DOMAIN doflist'[q][l] = Holds[q]
    BY <1>0, <1>a DEF ListTypes
  <2>3. ASSUME NEW s \in Holds[r]
        PROVE  doflist'[r][k][s] \in [0..(size'[r][k][s] - 1) -> Int]
    <3>1. size'[r][k][s] = InitSet(r, k, s)
      BY <1>0, <1>a DEF SizeTypes
    <3>2. doflist'[r][k][s] = IF clone[r][s] THEN CloneDofs(r, k, s) ELSE LocalDofs(r, k, s)
      BY <1>0, <1>a DEF ListTypes
    <3>3. CloneDofs(r, k, s) \in [0..(InitSet(r, k, s) - 1) -> Int]
      <4>1. CASE k = "g"
        BY <4>1, <1>0 DEF ListTypes, SizeTypes, CloneDofs, InitSet
      <4>2. CASE k # "g"
        BY <4>2 DEF CloneDofs, UNDEF
      <4> QED BY <4>1, <4>2
    <3>4. LocalDofs(r, k, s) \in [0..(InitSet(r, k, s) - 1) -> Int]
      <4>1. s \in 0..NumNodes
        BY HoldsType, SizeAssumption DEF Sid
      <4>2. RunningSum(OwnDofs(r, k), s) \in Nat
        BY <4>1, <1>0, OwnDofsType
      <4> QED BY <4>2 DEF LocalDofs
    <3> QED BY <3>1, <3>2, <3>3, <3>4
  <2>4. ASSUME NEW q \in Rank, NEW l \in SetEnum, NEW s \in Holds[q], ~ (q = r /\ l = k)
        PROVE  doflist'[q][l][s] \in [0..(size'[q][l][s] - 1) -> Int]
    <3>1. doflist'[q][l][s] = doflist[q][l][s]
      BY <1>a, <2>4 DEF ListTypes
    <3>2. size'[q][l][s] = size[q][l][s]
      BY <1>a, <2>4 DEF SizeTypes
    <3> QED BY <3>1, <3>2 DEF ListTypes
  <2> QED BY <1>0, <2>1, <2>2, <2>3, <2>4 DEF ListTypes
<1>6. CountTypes'
  <2>1. RunningSum(OwnDofs(r, k), NumNodes) \in Nat
    BY <1>0, SizeAssumption, OwnDofsType
  <2> QED BY <1>a, <2>1 DEF CountTypes, commvars
<1>7. TableWide'
  <2> SUFFICES ASSUME NEW q \in Rank, NEW s \in Holds[q],
                      pc'[q] \in {"truedofs", "update clones"}
               PROVE  /\ pc'[q] = pc[q] /\ setenum'[q] = setenum[q]
                      /\ size'[q][setenum'[q]][s] = size[q][setenum[q]][s]
    BY <1>a DEF TableWide, commvars
  <2>1. q # r
    BY <1>a
  <2> QED BY <2>1, <1>a DEF SizeTypes
<1> QED BY <1>1, <1>2, <1>4, <1>5, <1>6, <1>7, <1>a DEF envvars

LEMMA OffsetNat ==
  ASSUME TypeInv, NEW r \in Rank, NEW k \in SetEnum
  PROVE  Offset(r, k) \in Nat
<1>1. alldofcount \in [0..(NumProcs - 1) -> Nat]
  BY DEF TypeInv, CountTypes, Rank
<1>2. r \in 0..NumProcs /\ NumProcs \in Nat
  BY SizeAssumption DEF Rank
<1> QED BY <1>1, <1>2, RunningSumNat DEF Offset

LEMMA OffsetDofsType ==
  ASSUME TypeInv, NEW r \in Rank, OffsetDofs(r)
  PROVE  TypeInv'
<1> USE DEF TypeInv
<1> DEFINE k == setenum[r]
<1>0. k \in SetEnum
  OBVIOUS
<1> HIDE DEF k
<1>a. /\ pc[r] = "offset"
      /\ pc' = [pc EXCEPT ![r] = "maxdofs"]
      /\ doflist' = [doflist EXCEPT ![r][k] = [s \in Holds[r] |->
           IF clone[r][s] THEN doflist[r][k][s]
           ELSE [j \in 0..(size[r][k][s] - 1) |-> doflist[r][k][s][j] + Offset(r, k)]]]
      /\ UNCHANGED <<setenum, envvars, nodevars, clone, size, dofcount, commvars>>
  BY DEF OffsetDofs, Goto, k
<1>1. pc' \in [Rank -> PC]
  BY <1>a DEF PC
<1>2. NodeTypes' /\ SizeTypes' /\ CountTypes'
  BY <1>a DEF NodeTypes, Copies, nodevars, commvars, SizeTypes, CountTypes
<1>3. ListTypes'
  <2>1. DOMAIN doflist' = Rank /\ (\A q \in Rank : DOMAIN doflist'[q] = SetEnum)
    BY <1>0, <1>a DEF ListTypes
  <2>2. \A q \in Rank, l \in SetEnum : DOMAIN doflist'[q][l] = Holds[q]
    BY <1>0, <1>a DEF ListTypes
  <2>3. ASSUME NEW s \in Holds[r]
        PROVE  doflist'[r][k][s] \in [0..(size[r][k][s] - 1) -> Int]
    <3>1. doflist[r][k][s] \in [0..(size[r][k][s] - 1) -> Int]
      BY <1>0 DEF ListTypes
    <3>2. Offset(r, k) \in Nat
      BY <1>0, OffsetNat
    <3>3. doflist'[r][k][s] =
            IF clone[r][s] THEN doflist[r][k][s]
            ELSE [j \in 0..(size[r][k][s] - 1) |-> doflist[r][k][s][j] + Offset(r, k)]
      BY <1>0, <1>a DEF ListTypes
    <3>4. ASSUME NEW j \in 0..(size[r][k][s] - 1)
          PROVE  doflist[r][k][s][j] + Offset(r, k) \in Int
      <4>1. doflist[r][k][s][j] \in Int
        BY <3>1
      <4> QED BY <4>1, <3>2
    <3> QED BY <3>1, <3>3, <3>4
  <2>4. ASSUME NEW q \in Rank, NEW l \in SetEnum, NEW s \in Holds[q], ~ (q = r /\ l = k)
        PROVE  doflist'[q][l][s] \in [0..(size[q][l][s] - 1) -> Int]
    BY <1>a, <2>4 DEF ListTypes
  <2> QED BY <1>0, <1>a, <2>1, <2>2, <2>3, <2>4 DEF ListTypes
<1>4. TableWide'
  BY <1>a DEF TableWide, commvars
<1> QED BY <1>1, <1>2, <1>3, <1>4, <1>a DEF envvars

LEMMA UpdateCloneDofsType ==
  ASSUME TypeInv, NEW r \in Rank, UpdateCloneDofs(r)
  PROVE  TypeInv'
<1> USE DEF TypeInv
<1> DEFINE k == setenum[r]
<1>0. k \in SetEnum
  OBVIOUS
<1>b. \A s \in Holds[r] : \A j \in 0..(size[r][k][s] - 1) :
        pc[r] = "update clones" => alltruedofs[s][j] \in Int
  BY DEF TableWide
<1>c. NextSet(k) \in SetEnum
  BY DEF NextSet, SetEnum
<1> HIDE DEF k
<1>a. /\ pc[r] = "update clones"
      /\ pc' = [pc EXCEPT ![r] = IF k = "s" THEN "solve" ELSE "distribute"]
      /\ doflist' = [doflist EXCEPT ![r][k] = [s \in Holds[r] |->
           IF clone[r][s] THEN [j \in 0..(size[r][k][s] - 1) |-> alltruedofs[s][j]]
           ELSE doflist[r][k][s]]]
      /\ indexingupdate' = [indexingupdate EXCEPT ![r] = [s \in Holds[r] |-> StillAsks(r, s)]]
      /\ setenum' = [setenum EXCEPT ![r] = NextSet(k)]
      /\ UNCHANGED <<envvars, active, fset, clone, size, dofcount, commvars>>
  BY DEF UpdateCloneDofs, Goto, k
<1>1. pc' \in [Rank -> PC] /\ setenum' \in [Rank -> SetEnum]
  BY <1>a, <1>c DEF PC
<1>2. NodeTypes'
  <2>1. Copies(indexingupdate, BOOLEAN)'
    BY <1>a DEF NodeTypes, Copies, StillAsks
  <2> QED BY <1>a, <2>1 DEF NodeTypes, Copies
<1>3. SizeTypes' /\ CountTypes'
  BY <1>a DEF SizeTypes, CountTypes, commvars
<1>4. ListTypes'
  <2>1. DOMAIN doflist' = Rank /\ (\A q \in Rank : DOMAIN doflist'[q] = SetEnum)
    BY <1>0, <1>a DEF ListTypes
  <2>2. \A q \in Rank, l \in SetEnum : DOMAIN doflist'[q][l] = Holds[q]
    BY <1>0, <1>a DEF ListTypes
  <2>3. ASSUME NEW s \in Holds[r]
        PROVE  doflist'[r][k][s] \in [0..(size[r][k][s] - 1) -> Int]
    <3>1. doflist[r][k][s] \in [0..(size[r][k][s] - 1) -> Int]
      BY <1>0 DEF ListTypes
    <3>2. [j \in 0..(size[r][k][s] - 1) |-> alltruedofs[s][j]] \in [0..(size[r][k][s] - 1) -> Int]
      BY <1>a, <1>b
    <3>3. doflist'[r][k][s] =
            IF clone[r][s] THEN [j \in 0..(size[r][k][s] - 1) |-> alltruedofs[s][j]]
            ELSE doflist[r][k][s]
      BY <1>0, <1>a DEF ListTypes
    <3> QED BY <3>1, <3>2, <3>3
  <2>4. ASSUME NEW q \in Rank, NEW l \in SetEnum, NEW s \in Holds[q], ~ (q = r /\ l = k)
        PROVE  doflist'[q][l][s] \in [0..(size[q][l][s] - 1) -> Int]
    BY <1>a, <2>4 DEF ListTypes
  <2> QED BY <1>0, <1>a, <2>1, <2>2, <2>3, <2>4 DEF ListTypes
<1>5. TableWide'
  <2> SUFFICES ASSUME NEW q \in Rank, NEW s \in Holds[q],
                      pc'[q] \in {"truedofs", "update clones"}
               PROVE  q # r
    BY <1>a DEF TableWide, commvars
  <2> QED BY <1>a
<1> QED BY <1>1, <1>2, <1>3, <1>4, <1>5, <1>a DEF envvars

LEMMA SolveType ==
  ASSUME TypeInv, NEW r \in Rank, Solve(r)
  PROVE  TypeInv'
<1> USE DEF Solve, Goto, envvars, nodevars, commvars, TypeInv
<1>1. pc' \in [Rank -> PC]
  BY DEF PC
<1>2. NodeTypes' /\ SizeTypes' /\ ListTypes' /\ CountTypes'
  BY DEF NodeTypes, Copies, SizeTypes, ListTypes, CountTypes
<1>3. TableWide'
  BY DEF TableWide
<1> QED BY <1>1, <1>2, <1>3

\* A collective moves every rank and leaves the node copies alone.
LEMMA RequiresDofReindexingType ==
  ASSUME TypeInv, RequiresDofReindexing
  PROVE  TypeInv'
<1> USE DEF RequiresDofReindexing, envvars, nodevars, commvars, TypeInv
<1>1. pc' \in [Rank -> PC]
  BY DEF PC
<1>2. NodeTypes' /\ SizeTypes' /\ ListTypes' /\ CountTypes'
  BY DEF NodeTypes, Copies, SizeTypes, ListTypes, CountTypes
<1>3. TableWide'
  BY DEF TableWide
<1> QED BY <1>1, <1>2, <1>3

\* The reduction finds the lowest rank that has a copy.
LEMMA MasterRankIsLowest ==
  ASSUME NEW s \in Sid
  PROVE  /\ MasterRank(s) \in Rank
         /\ s \in Holds[MasterRank(s)]
         /\ \A r \in Rank : s \in Holds[r] => MasterRank(s) <= r
<1> DEFINE S == {RankEntry(r, s) : r \in Rank}
<1>1. S \subseteq Nat /\ S # {}
  BY RankFinite, SizeAssumption DEF RankEntry
<1>2. MinOf(S) \in S /\ \A x \in S : MinOf(S) <= x
  <2> HIDE DEF S
  <2> QED BY <1>1, MinOfNat
<1>3. PICK q \in Rank : s \in Holds[q]
  BY PartitionAssumption
<1>4. q \in S /\ q < NumProcs
  <2>1. q = RankEntry(q, s)
    BY <1>3 DEF RankEntry
  <2> QED BY <2>1, SizeAssumption DEF Rank
<1>5. MinOf(S) # NumProcs
  <2>1. MinOf(S) <= q /\ MinOf(S) \in Nat /\ q \in Nat /\ NumProcs \in Nat
    BY <1>1, <1>2, <1>4, RankFinite, SizeAssumption
  <2> HIDE DEF S
  <2> QED BY <2>1, <1>4
<1>6. PICK m \in Rank : MinOf(S) = RankEntry(m, s)
  BY <1>2
<1>7. MinOf(S) = m /\ s \in Holds[m]
  BY <1>5, <1>6 DEF RankEntry
<1>8. \A r \in Rank : s \in Holds[r] => r \in S
  <2>1. \A r \in Rank : s \in Holds[r] => RankEntry(r, s) = r
    BY DEF RankEntry
  <2> QED BY <2>1
<1> QED BY <1>2, <1>7, <1>8 DEF MasterRank

LEMMA AllreduceRanksType ==
  ASSUME TypeInv, AllreduceRanks
  PROVE  TypeInv'
<1> USE DEF AllreduceRanks, Collective, envvars, nodevars, TypeInv
<1>1. pc' \in [Rank -> PC]
  BY DEF PC
<1>2. minranks' \in [Sid -> Nat]
  BY MasterRankIsLowest, RankFinite
<1>3. NodeTypes' /\ SizeTypes' /\ ListTypes' /\ CountTypes'
  BY <1>2 DEF NodeTypes, Copies, SizeTypes, ListTypes, CountTypes
<1>4. TableWide'
  BY DEF TableWide
<1> QED BY <1>1, <1>3, <1>4

LEMMA GatherCountsType ==
  ASSUME TypeInv, GatherCounts
  PROVE  TypeInv'
<1> USE DEF GatherCounts, Collective, envvars, nodevars, TypeInv
<1>1. pc' \in [Rank -> PC]
  BY DEF PC
<1>2. NodeTypes' /\ SizeTypes' /\ ListTypes' /\ CountTypes'
  BY DEF NodeTypes, Copies, SizeTypes, ListTypes, CountTypes
<1>3. TableWide'
  BY DEF TableWide
<1> QED BY <1>1, <1>2, <1>3

LEMMA MaxNumDofsType ==
  ASSUME TypeInv, MaxNumDofs
  PROVE  TypeInv'
<1> USE DEF MaxNumDofs, Collective, envvars, nodevars, TypeInv
<1> DEFINE Sizes(r) == {size[r][setenum[r]][s] : s \in Holds[r]}
<1> DEFINE All == {0} \cup UNION {Sizes(r) : r \in Rank}
<1>1. pc' \in [Rank -> PC]
  BY DEF PC
<1>2. All \subseteq Nat
  BY DEF SizeTypes
<1>3. IsFiniteSet(All)
  <2>1. \A r \in Rank : IsFiniteSet(Holds[r])
    <3>1. IsFiniteSet(0..(NumNodes - 1))
      BY FS_Interval, SizeAssumption, 0 \in Int, NumNodes - 1 \in Int
    <3> QED BY <3>1, HoldsType, FS_Subset DEF Sid
  <2>2. \A r \in Rank : IsFiniteSet(Sizes(r))
    BY <2>1, FiniteImage
  <2>3. IsFiniteSet({Sizes(r) : r \in Rank})
    <3> DEFINE f == [r \in Rank |-> Sizes(r)]
    <3>1. IsFiniteSet({f[r] : r \in Rank})
      <4> HIDE DEF f
      <4> QED BY RankFinite, FiniteImage
    <3>2. {f[r] : r \in Rank} = {Sizes(r) : r \in Rank}
      OBVIOUS
    <3> HIDE DEF f
    <3> QED BY <3>1, <3>2
  <2>4. \A T \in {Sizes(r) : r \in Rank} : IsFiniteSet(T)
    BY <2>2
  <2>5. IsFiniteSet(UNION {Sizes(r) : r \in Rank})
    BY <2>3, <2>4, FS_UNION
  <2>6. IsFiniteSet({0})
    BY FS_Singleton
  <2> QED BY <2>5, <2>6, FS_Union
<1>4. MaxOf(All) \in All /\ \A x \in All : x <= MaxOf(All)
  <2>1. All \in SUBSET Int /\ All # {}
    BY <1>2
  <2> HIDE DEF All
  <2> QED BY <1>3, <2>1, MaxOfFinite
<1>5. maxdofspernode' = MaxOf(All)
  OBVIOUS
<1>6. \A r \in Rank : \A s \in Holds[r] : size[r][setenum[r]][s] \in All
  OBVIOUS
<1> HIDE DEF All
<1>7. NodeTypes' /\ SizeTypes' /\ ListTypes' /\ CountTypes'
  BY <1>2, <1>4, <1>5 DEF NodeTypes, Copies, SizeTypes, ListTypes, CountTypes
<1>8. TableWide'
  BY <1>4, <1>5, <1>6 DEF TableWide
<1> QED BY <1>1, <1>7, <1>8

LEMMA ShowTrueDofInt ==
  ASSUME TypeInv, NEW r \in Rank, NEW s \in Sid, NEW j \in Nat
  PROVE  ShowTrueDof(r, s, j) \in Int
<1> DEFINE k == setenum[r]
<1>1. k \in SetEnum
  BY DEF TypeInv
<1>2. CASE s \in Holds[r] /\ ~clone[r][s] /\ j < size[r][k][s]
  <2>1. s \in Holds[r] /\ j < size[r][k][s]
    BY <1>2
  <2>2. doflist[r][k][s] \in [0..(size[r][k][s] - 1) -> Int]
    BY <1>1, <2>1 DEF TypeInv, ListTypes
  <2>3. size[r][k][s] \in Nat
    BY <1>1, <2>1 DEF TypeInv, SizeTypes
  <2>4. ShowTrueDof(r, s, j) = doflist[r][k][s][j]
    BY <1>2 DEF ShowTrueDof
  <2> HIDE DEF k
  <2>5. j \in 0..(size[r][k][s] - 1)
    BY <2>1, <2>3
  <2> QED BY <2>2, <2>4, <2>5
<1>3. CASE ~ (s \in Holds[r] /\ ~clone[r][s] /\ j < size[r][k][s])
  BY <1>3 DEF ShowTrueDof
<1> QED BY <1>2, <1>3

LEMMA AllreduceTrueDofsType ==
  ASSUME TypeInv, AllreduceTrueDofs
  PROVE  TypeInv'
<1> USE DEF AllreduceTrueDofs, Collective, envvars, nodevars, TypeInv
<1>1. pc' \in [Rank -> PC]
  BY DEF PC
<1>2. NodeTypes' /\ SizeTypes' /\ ListTypes' /\ CountTypes'
  BY DEF NodeTypes, Copies, SizeTypes, ListTypes, CountTypes
<1>3. ASSUME NEW s \in Sid, NEW j \in 0..(maxdofspernode - 1)
      PROVE  alltruedofs'[s][j] \in Int
  <2> DEFINE Shown == {ShowTrueDof(r, s, j) : r \in Rank}
  <2>0. j \in Nat
    <3>1. maxdofspernode \in Nat
      BY DEF CountTypes
    <3> QED BY <3>1, IntervalNat
  <2>1. ASSUME NEW r \in Rank
        PROVE  ShowTrueDof(r, s, j) \in Int
    BY <2>0, ShowTrueDofInt
  <2>2. IsFiniteSet(Shown)
    <3> DEFINE f == [r \in Rank |-> ShowTrueDof(r, s, j)]
    <3>1. IsFiniteSet({f[r] : r \in Rank})
      <4> HIDE DEF f
      <4> QED BY RankFinite, FiniteImage
    <3>2. {f[r] : r \in Rank} = Shown
      OBVIOUS
    <3> HIDE DEF f, Shown
    <3> QED BY <3>1, <3>2
  <2>3. Shown \in SUBSET Int /\ Shown # {}
    BY <2>1, RankFinite
  <2>4. MaxOf(Shown) \in Int
    <3> HIDE DEF Shown
    <3> QED BY <2>2, <2>3, MaxOfFinite
  <2>5. alltruedofs'[s][j] = MaxOf(Shown)
    OBVIOUS
  <2> QED BY <2>4, <2>5
<1>4. TableWide'
  <2> SUFFICES ASSUME NEW r \in Rank, NEW s \in Holds[r],
                      NEW j \in 0..(size[r][setenum[r]][s] - 1)
               PROVE  alltruedofs'[s][j] \in Int
    BY DEF TableWide
  <2>1. size[r][setenum[r]][s] <= maxdofspernode
    BY DEF TableWide
  <2>2. size[r][setenum[r]][s] \in Nat /\ maxdofspernode \in Nat
    BY DEF SizeTypes, CountTypes
  <2>3. j \in 0..(maxdofspernode - 1)
    <3>1. 0..(size[r][setenum[r]][s] - 1) \subseteq 0..(maxdofspernode - 1)
      BY <2>1, <2>2, IntervalGrows
    <3> QED BY <3>1
  <2> QED BY <1>3, <2>3, HoldsType
<1> QED BY <1>1, <1>2, <1>4

LEMMA AssembleMaskType ==
  ASSUME TypeInv, AssembleMask
  PROVE  TypeInv'
<1> USE DEF AssembleMask, Collective, nodevars, commvars, TypeInv
<1>1. pc' \in [Rank -> PC]
  BY DEF PC
<1>2. NodeTypes' /\ SizeTypes' /\ ListTypes' /\ CountTypes'
  BY DEF NodeTypes, Copies, SizeTypes, ListTypes, CountTypes
<1>3. TableWide'
  BY DEF TableWide
<1> QED BY <1>1, <1>2, <1>3

LEMMA TypeInvNext == TypeInv /\ [Next]_vars => TypeInv'
<1> SUFFICES ASSUME TypeInv, [Next]_vars PROVE TypeInv'
  OBVIOUS
<1>1. CASE \E r \in Rank : LocalStep(r)
  <2>1. PICK r \in Rank : LocalStep(r)
    BY <1>1
  <2> QED BY <2>1, UpdateConstraintsType, SetCloneType, DistributeDofsType,
             OffsetDofsType, UpdateCloneDofsType, SolveType DEF LocalStep
<1>2. CASE CollectiveStep
  BY <1>2, RequiresDofReindexingType, AllreduceRanksType, GatherCountsType,
     MaxNumDofsType, AllreduceTrueDofsType, AssembleMaskType DEF CollectiveStep
<1>3. CASE UNCHANGED vars
  BY <1>3 DEF vars, TypeInv, NodeTypes, Copies, SizeTypes, ListTypes, CountTypes, TableWide
<1> QED BY <1>1, <1>2, <1>3 DEF Next

LEMMA TypeInvariance == Spec => []TypeInv
BY TypeInvInit, TypeInvNext, PTL DEF Spec

\* Every variable keeps its type and every list the length of its set, whatever
\* the partition and the constraints: in particular a clone never reads beyond the
\* table that the masters have filled.
THEOREM TypeCorrect == Spec => []TypeOK
BY TypeInvariance, TypeInvImpliesTypeOK, PTL

-----------------------------------------------------------------------------
(***************************************************************************)
(* The ranks advance in step: a step of one rank stays within a phase, and *)
(* the phase changes for all of them in a collective.                      *)
(***************************************************************************)
Stage(r) ==
  IF pc[r] \in {"update", "reindex?"} THEN "check"
  ELSE IF pc[r] = "ranks" THEN "ranks"
  ELSE IF pc[r] \in {"clones", "distribute", "counts"} THEN "count"
  ELSE IF pc[r] \in {"offset", "maxdofs"} THEN "offset"
  ELSE IF pc[r] = "truedofs" THEN "table"
  ELSE IF pc[r] = "update clones" /\ setenum[r] # "s" THEN "count"
  ELSE "use"

\* The set that the phase is about, "g" where it is about none.
StageSet(r) ==
  IF pc[r] \in {"distribute", "counts", "offset", "maxdofs", "truedofs"} THEN setenum[r]
  ELSE IF pc[r] = "update clones" /\ setenum[r] # "s" THEN NextSet(setenum[r])
  ELSE "g"

SamePhase == \A r1, r2 \in Rank : Stage(r1) = Stage(r2) /\ StageSet(r1) = StageSet(r2)

LEMMA SamePhaseInit == Init => SamePhase
BY DEF Init, SamePhase, Stage, StageSet

LEMMA LocalStepKeepsPhase ==
  ASSUME TypeInv, NEW r \in Rank, LocalStep(r), NEW q \in Rank
  PROVE  Stage(q)' = Stage(q) /\ StageSet(q)' = StageSet(q)
<1> USE DEF TypeInv
<1>1. CASE UpdateConstraints(r)
  BY <1>1 DEF UpdateConstraints, Goto, Stage, StageSet
<1>2. CASE SetClone(r)
  BY <1>2 DEF SetClone, Goto, Stage, StageSet
<1>3. CASE DistributeDofs(r)
  BY <1>3 DEF DistributeDofs, Goto, Stage, StageSet
<1>4. CASE OffsetDofs(r)
  BY <1>4 DEF OffsetDofs, Goto, Stage, StageSet
<1>5. CASE UpdateCloneDofs(r)
  BY <1>5 DEF UpdateCloneDofs, Goto, Stage, StageSet
<1>6. CASE Solve(r)
  BY <1>6 DEF Solve, Goto, Stage, StageSet
<1> QED BY <1>1, <1>2, <1>3, <1>4, <1>5, <1>6 DEF LocalStep

LEMMA CollectiveStepKeepsSamePhase ==
  ASSUME TypeInv, SamePhase, CollectiveStep
  PROVE  SamePhase'
<1> USE DEF TypeInv, SamePhase
<1>1. CASE RequiresDofReindexing
  <2>1. PICK to \in {"ranks", "solve"} : \A r \in Rank : pc'[r] = to
    BY <1>1 DEF RequiresDofReindexing, MustReindex
  <2> QED BY <2>1 DEF Stage, StageSet
<1>2. CASE AllreduceRanks
  BY <1>2 DEF AllreduceRanks, Collective, Stage, StageSet
<1>3. CASE GatherCounts
  BY <1>3 DEF GatherCounts, Collective, Stage, StageSet
<1>4. CASE MaxNumDofs
  BY <1>4 DEF MaxNumDofs, Collective, Stage, StageSet
<1>5. CASE AllreduceTrueDofs
  <2>1. \A r1, r2 \in Rank : setenum[r1] = setenum[r2]
    BY <1>5 DEF AllreduceTrueDofs, Collective, Stage, StageSet
  <2>2. \A r \in Rank : pc'[r] = "update clones" /\ setenum'[r] = setenum[r]
    BY <1>5 DEF AllreduceTrueDofs, Collective
  <2>3. \A r \in Rank : /\ Stage(r)' = IF setenum[r] # "s" THEN "count" ELSE "use"
                        /\ StageSet(r)' = IF setenum[r] # "s" THEN NextSet(setenum[r]) ELSE "g"
    BY <2>2 DEF Stage, StageSet
  <2> QED BY <2>1, <2>3
<1>6. CASE AssembleMask
  BY <1>6 DEF AssembleMask, Collective, Stage, StageSet
<1> QED BY <1>1, <1>2, <1>3, <1>4, <1>5, <1>6 DEF CollectiveStep

LEMMA SamePhaseNext == TypeInv /\ SamePhase /\ [Next]_vars => SamePhase'
<1> SUFFICES ASSUME TypeInv, SamePhase, [Next]_vars PROVE SamePhase'
  OBVIOUS
<1>1. CASE \E r \in Rank : LocalStep(r)
  <2>1. PICK r \in Rank : LocalStep(r)
    BY <1>1
  <2> SUFFICES ASSUME NEW r1 \in Rank, NEW r2 \in Rank
               PROVE  Stage(r1)' = Stage(r2)' /\ StageSet(r1)' = StageSet(r2)'
    BY DEF SamePhase
  <2>2. /\ Stage(r1)' = Stage(r1) /\ StageSet(r1)' = StageSet(r1)
        /\ Stage(r2)' = Stage(r2) /\ StageSet(r2)' = StageSet(r2)
    BY <2>1, LocalStepKeepsPhase
  <2> QED BY <2>2 DEF SamePhase
<1>2. CASE CollectiveStep
  BY <1>2, CollectiveStepKeepsSamePhase
<1>3. CASE UNCHANGED vars
  <2> SUFFICES ASSUME NEW r1 \in Rank, NEW r2 \in Rank
               PROVE  Stage(r1)' = Stage(r2)' /\ StageSet(r1)' = StageSet(r2)'
    BY DEF SamePhase
  <2>1. pc' = pc /\ setenum' = setenum
    BY <1>3 DEF vars
  <2>2. Stage(r1) = Stage(r2) /\ StageSet(r1) = StageSet(r2)
    BY DEF SamePhase
  <2> QED BY <2>1, <2>2 DEF Stage, StageSet
<1> QED BY <1>1, <1>2, <1>3 DEF Next

LEMMA SamePhaseInvariance == Spec => []SamePhase
BY SamePhaseInit, SamePhaseNext, TypeInvariance, PTL DEF Spec

\* Ranks that wait, wait in the same collective and for the same set.  The
\* induction needs the phase of the ranks that do not wait as well.
THEOREM RanksMeetInSameCollective == Spec => []SameCollective
<1>1. SamePhase => SameCollective
  BY DEF SamePhase, Stage, StageSet, SameCollective, Waiting
<1> QED BY <1>1, SamePhaseInvariance, PTL

-----------------------------------------------------------------------------
(***************************************************************************)
(* What a rank knows of its own copies: which of them are masters, that    *)
(* none still asks for a renumbering when its list is used, and that the   *)
(* lists in use are those of the current sets.                             *)
(***************************************************************************)

Checking(r)  == pc[r] \in {"update", "reindex?"}
Numbering(r) == pc[r] \in {"distribute", "counts", "offset", "maxdofs", "truedofs", "update clones"}

\* Only one rank is changed by a local step, and only in what is its own.
LEMMA LocalStepFrame ==
  ASSUME TypeInv, NEW r \in Rank, LocalStep(r), NEW q \in Rank, q # r
  PROVE  /\ pc'[q] = pc[q] /\ setenum'[q] = setenum[q] /\ clone'[q] = clone[q]
         /\ active'[q] = active[q] /\ fset'[q] = fset[q]
         /\ indexingupdate'[q] = indexingupdate[q] /\ size'[q] = size[q]
         /\ doflist'[q] = doflist[q] /\ dofcount'[q] = dofcount[q]
<1> USE DEF TypeInv, NodeTypes, Copies, SizeTypes, ListTypes, CountTypes, Goto, nodevars
<1>1. CASE UpdateConstraints(r)
  BY <1>1 DEF UpdateConstraints
<1>2. CASE SetClone(r)
  BY <1>2 DEF SetClone
<1>3. CASE DistributeDofs(r)
  BY <1>3 DEF DistributeDofs
<1>4. CASE OffsetDofs(r)
  BY <1>4 DEF OffsetDofs
<1>5. CASE UpdateCloneDofs(r)
  BY <1>5 DEF UpdateCloneDofs
<1>6. CASE Solve(r)
  BY <1>6 DEF Solve
<1> QED BY <1>1, <1>2, <1>3, <1>4, <1>5, <1>6 DEF LocalStep

LEMMA LocalStepKeepsCollected ==
  ASSUME NEW r \in Rank, LocalStep(r)
  PROVE  UNCHANGED <<mask, relaxed, minranks, alldofcount, maxdofspernode, alltruedofs>>
BY DEF LocalStep, UpdateConstraints, SetClone, DistributeDofs, OffsetDofs,
       UpdateCloneDofs, Solve, envvars, commvars

LEMMA CollectiveStepFrame ==
  ASSUME CollectiveStep
  PROVE  UNCHANGED <<setenum, active, fset, indexingupdate, clone, size, doflist, dofcount>>
BY DEF CollectiveStep, RequiresDofReindexing, AllreduceRanks, GatherCounts, MaxNumDofs,
       AllreduceTrueDofs, AssembleMask, nodevars

-----------------------------------------------------------------------------
(***************************************************************************)
(* The masters.  A rank that has not numbered its copies yet does not know *)
(* its masters; then all its copies ask for a renumbering.                 *)
(***************************************************************************)
Settled(r) == \A s \in Holds[r] : clone[r][s] = (MasterRank(s) # r)
Fresh(r)   == \A s \in Holds[r] : indexingupdate[r][s]

MastersKnown(r) ==
  /\ pc[r] = "clones" => \A s \in Sid : minranks[s] = MasterRank(s)
  /\ Numbering(r) \/ InUse(r) => Settled(r)
  /\ Checking(r) => Settled(r) \/ Fresh(r)

FlagsClear(r) ==
  InUse(r) \/ (Numbering(r) /\ setenum[r] # "g") => \A s \in Holds[r] : ~indexingupdate[r][s]

LEMMA MastersKnownInit == Init => \A r \in Rank : MastersKnown(r) /\ FlagsClear(r)
BY DEF Init, MastersKnown, FlagsClear, Fresh, InUse, Numbering, Checking

LEMMA MastersKnownLocal ==
  ASSUME TypeInv, NEW r \in Rank, LocalStep(r), MastersKnown(r), FlagsClear(r)
  PROVE  MastersKnown(r)' /\ FlagsClear(r)'
<1> USE DEF TypeInv, NodeTypes, Copies, Goto, nodevars, commvars, MastersKnown, FlagsClear,
            Settled, Fresh, InUse, Numbering, Checking
<1>1. CASE UpdateConstraints(r)
  BY <1>1 DEF UpdateConstraints
<1>2. CASE SetClone(r)
  BY <1>2, HoldsType DEF SetClone
<1>3. CASE DistributeDofs(r)
  BY <1>3 DEF DistributeDofs
<1>4. CASE OffsetDofs(r)
  BY <1>4 DEF OffsetDofs
<1>5. CASE UpdateCloneDofs(r)
  BY <1>5 DEF UpdateCloneDofs, StillAsks
<1>6. CASE Solve(r)
  BY <1>6 DEF Solve
<1> QED BY <1>1, <1>2, <1>3, <1>4, <1>5, <1>6 DEF LocalStep

LEMMA MastersKnownCollective ==
  ASSUME TypeInv, \A r \in Rank : MastersKnown(r) /\ FlagsClear(r), CollectiveStep
  PROVE  \A r \in Rank : MastersKnown(r)' /\ FlagsClear(r)'
<1> USE DEF TypeInv, Collective, nodevars, commvars, MastersKnown, FlagsClear,
            Settled, Fresh, InUse, Numbering, Checking
<1>1. CASE RequiresDofReindexing
  BY <1>1 DEF RequiresDofReindexing, MustReindex
<1>2. CASE AllreduceRanks
  BY <1>2 DEF AllreduceRanks
<1>3. CASE GatherCounts
  BY <1>3 DEF GatherCounts
<1>4. CASE MaxNumDofs
  BY <1>4 DEF MaxNumDofs
<1>5. CASE AllreduceTrueDofs
  BY <1>5 DEF AllreduceTrueDofs
<1>6. CASE AssembleMask
  BY <1>6 DEF AssembleMask
<1> QED BY <1>1, <1>2, <1>3, <1>4, <1>5, <1>6 DEF CollectiveStep

LEMMA MastersKnownNext ==
  TypeInv /\ (\A r \in Rank : MastersKnown(r) /\ FlagsClear(r)) /\ [Next]_vars
    => (\A r \in Rank : MastersKnown(r) /\ FlagsClear(r))'
<1> SUFFICES ASSUME TypeInv, \A r \in Rank : MastersKnown(r) /\ FlagsClear(r), [Next]_vars,
                    NEW q \in Rank
             PROVE  MastersKnown(q)' /\ FlagsClear(q)'
  OBVIOUS
<1>1. CASE \E r \in Rank : LocalStep(r)
  <2>1. PICK r \in Rank : LocalStep(r)
    BY <1>1
  <2>2. CASE q = r
    BY <2>1, <2>2, MastersKnownLocal
  <2>3. CASE q # r
    <3>1. MastersKnown(q) /\ FlagsClear(q)
      OBVIOUS
    <3>2. /\ pc'[q] = pc[q] /\ setenum'[q] = setenum[q] /\ clone'[q] = clone[q]
          /\ indexingupdate'[q] = indexingupdate[q] /\ minranks' = minranks
      BY <2>1, <2>3, LocalStepFrame, LocalStepKeepsCollected
    <3> QED BY <3>1, <3>2 DEF MastersKnown, FlagsClear, Settled, Fresh, InUse, Numbering, Checking
  <2> QED BY <2>2, <2>3
<1>2. CASE CollectiveStep
  BY <1>2, MastersKnownCollective
<1>3. CASE UNCHANGED vars
  <2>1. MastersKnown(q) /\ FlagsClear(q)
    OBVIOUS
  <2> QED BY <1>3, <2>1 DEF vars, MastersKnown, FlagsClear, Settled, Fresh, InUse, Numbering, Checking
<1> QED BY <1>1, <1>2, <1>3 DEF Next

LEMMA MastersKnownInvariance == Spec => [](\A r \in Rank : MastersKnown(r) /\ FlagsClear(r))
BY MastersKnownInit, MastersKnownNext, TypeInvariance, PTL DEF Spec

\* Every node has one master, whatever the partition: the lowest rank that has a
\* copy of it.
THEOREM EveryNodeHasOneMaster == Spec => []OneMaster
<1>1. (\A r \in Rank : MastersKnown(r) /\ FlagsClear(r)) => OneMaster
  <2> SUFFICES ASSUME \A r \in Rank : MastersKnown(r), \A r \in Rank : InUse(r), NEW s \in Sid
               PROVE  \E r \in Rank : Master(r, s) /\ \A q \in Rank : Master(q, s) => q = r
    BY DEF OneMaster
  <2>1. \A r \in Rank : Settled(r)
    BY DEF MastersKnown
  <2>2. MasterRank(s) \in Rank /\ s \in Holds[MasterRank(s)]
    BY MasterRankIsLowest
  <2>3. Master(MasterRank(s), s)
    BY <2>1, <2>2 DEF Master, Settled
  <2>4. \A q \in Rank : Master(q, s) => q = MasterRank(s)
    BY <2>1 DEF Master, Settled
  <2> QED BY <2>2, <2>3, <2>4
<1> QED BY <1>1, MastersKnownInvariance, PTL

\* The assertion of Node::GetDof never fails: no list is read while its node waits
\* for a renumbering.
THEOREM NoListIsStale == Spec => []NoStaleIndices
<1>1. (\A r \in Rank : MastersKnown(r) /\ FlagsClear(r)) => NoStaleIndices
  BY DEF FlagsClear, NoStaleIndices
<1> QED BY <1>1, MastersKnownInvariance, PTL

-----------------------------------------------------------------------------
(***************************************************************************)
(* The sizes.  Once a set is numbered its sizes are those of the current   *)
(* sets, and they stay so until a node asks for a renumbering.             *)
(***************************************************************************)
Sized(r, k, s) == size[r][k][s] = InitSet(r, k, s)

Counted(r, k) ==
  \/ InUse(r)
  \/ /\ Numbering(r)
     /\ \/ k = setenum[r] /\ pc[r] # "distribute"
        \/ k = "f" /\ setenum[r] = "s"
        \/ k = "g"

SizesCurrent(r) ==
  /\ \A k \in SetEnum : Counted(r, k) => \A s \in Holds[r] : Sized(r, k, s)
  /\ Checking(r) =>
       \A s \in Holds[r] : indexingupdate[r][s] \/ \A k \in SetEnum : Sized(r, k, s)

\* A node that does not ask for a renumbering has the dof set it had.
LEMMA SilentSetUnchanged ==
  ASSUME NEW r \in Rank, NEW s \in Holds[r], ~ AsksForIndexing(r, s)
  PROVE  ConstrainedFSet(r, s) = fset[r][s]
BY DEF AsksForIndexing, MaskedFSet

LEMMA SizesCurrentInit == Init => \A r \in Rank : SizesCurrent(r)
BY DEF Init, SizesCurrent, Counted, InUse, Numbering, Checking

LEMMA SizesCurrentLocal ==
  ASSUME TypeInv, NEW r \in Rank, LocalStep(r), SizesCurrent(r)
  PROVE  SizesCurrent(r)'
<1> USE DEF TypeInv, NodeTypes, Copies, Goto, nodevars, InUse, Numbering, Checking
<1>1. CASE UpdateConstraints(r)
  <2>1. pc[r] = "update" /\ pc'[r] = "reindex?" /\ size' = size
    BY <1>1 DEF UpdateConstraints
  <2>2. ASSUME NEW s \in Holds[r], ~ indexingupdate'[r][s], NEW k \in SetEnum
        PROVE  Sized(r, k, s)'
    <3>1. ~ indexingupdate[r][s] /\ ~ AsksForIndexing(r, s)
      BY <1>1, <2>2 DEF UpdateConstraints
    <3>2. fset'[r][s] = fset[r][s]
      BY <1>1, <3>1, SilentSetUnchanged DEF UpdateConstraints
    <3>3. Sized(r, k, s)
      BY <2>1, <3>1 DEF SizesCurrent
    <3> QED BY <2>1, <3>2, <3>3 DEF Sized, InitSet
  <2> QED BY <2>1, <2>2 DEF SizesCurrent, Counted
<1>2. CASE SetClone(r)
  BY <1>2 DEF SetClone, SizesCurrent, Counted, Sized, InitSet, SizeTypes
<1>3. CASE DistributeDofs(r)
  <2>1. pc[r] = "distribute" /\ pc'[r] = "counts" /\ UNCHANGED <<setenum, fset>>
    BY <1>3 DEF DistributeDofs
  <2>2. ASSUME NEW k \in SetEnum, NEW s \in Holds[r], Counted(r, k)'
        PROVE  Sized(r, k, s)'
    <3>1. CASE k = setenum[r]
      BY <1>3, <2>1, <3>1 DEF DistributeDofs, Sized, InitSet, SizeTypes
    <3>2. CASE k # setenum[r]
      <4>1. Sized(r, k, s)
        BY <2>1, <2>2, <3>2 DEF SizesCurrent, Counted
      <4>2. size'[r][k][s] = size[r][k][s]
        BY <1>3, <3>2 DEF DistributeDofs, SizeTypes
      <4> QED BY <2>1, <4>1, <4>2 DEF Sized, InitSet
    <3> QED BY <3>1, <3>2
  <2> QED BY <2>1, <2>2 DEF SizesCurrent
<1>4. CASE OffsetDofs(r)
  BY <1>4 DEF OffsetDofs, SizesCurrent, Counted, Sized, InitSet
<1>5. CASE UpdateCloneDofs(r)
  BY <1>5 DEF UpdateCloneDofs, SizesCurrent, Counted, Sized, InitSet, NextSet, SetEnum
<1>6. CASE Solve(r)
  BY <1>6 DEF Solve, SizesCurrent, Counted, Sized, InitSet
<1> QED BY <1>1, <1>2, <1>3, <1>4, <1>5, <1>6 DEF LocalStep

LEMMA SizesCurrentCollective ==
  ASSUME TypeInv, NEW r \in Rank, SizesCurrent(r), CollectiveStep
  PROVE  SizesCurrent(r)'
<1>1. UNCHANGED <<setenum, fset, indexingupdate, size>>
  BY CollectiveStepFrame
<1>2. \A k \in SetEnum : \A s \in Holds[r] : Sized(r, k, s)' = Sized(r, k, s)
  BY <1>1 DEF Sized, InitSet
<1> USE DEF TypeInv, Collective, InUse, Numbering, Checking, SizesCurrent, Counted
<1>3. CASE RequiresDofReindexing
  BY <1>1, <1>2, <1>3 DEF RequiresDofReindexing, MustReindex
<1>4. CASE AllreduceRanks
  BY <1>1, <1>2, <1>4 DEF AllreduceRanks
<1>5. CASE GatherCounts
  BY <1>1, <1>2, <1>5 DEF GatherCounts
<1>6. CASE MaxNumDofs
  BY <1>1, <1>2, <1>6 DEF MaxNumDofs
<1>7. CASE AllreduceTrueDofs
  BY <1>1, <1>2, <1>7 DEF AllreduceTrueDofs
<1>8. CASE AssembleMask
  BY <1>1, <1>2, <1>8 DEF AssembleMask
<1> QED BY <1>3, <1>4, <1>5, <1>6, <1>7, <1>8 DEF CollectiveStep

LEMMA SizesCurrentNext ==
  TypeInv /\ (\A r \in Rank : SizesCurrent(r)) /\ [Next]_vars => (\A r \in Rank : SizesCurrent(r))'
<1> SUFFICES ASSUME TypeInv, \A r \in Rank : SizesCurrent(r), [Next]_vars, NEW q \in Rank
             PROVE  SizesCurrent(q)'
  OBVIOUS
<1>0. SizesCurrent(q)
  OBVIOUS
<1>1. CASE \E r \in Rank : LocalStep(r)
  <2>1. PICK r \in Rank : LocalStep(r)
    BY <1>1
  <2>2. CASE q = r
    BY <2>1, <2>2, <1>0, SizesCurrentLocal
  <2>3. CASE q # r
    <3>1. /\ pc'[q] = pc[q] /\ setenum'[q] = setenum[q] /\ fset'[q] = fset[q]
          /\ indexingupdate'[q] = indexingupdate[q] /\ size'[q] = size[q]
      BY <2>1, <2>3, LocalStepFrame
    <3>2. \A k \in SetEnum : \A s \in Holds[q] : Sized(q, k, s)' = Sized(q, k, s)
      BY <3>1 DEF Sized, InitSet
    <3>3. \A k \in SetEnum : Counted(q, k)' = Counted(q, k)
      BY <3>1 DEF Counted, InUse, Numbering
    <3>4. Checking(q)' = Checking(q)
      BY <3>1 DEF Checking
    <3> QED BY <1>0, <3>1, <3>2, <3>3, <3>4 DEF SizesCurrent
  <2> QED BY <2>2, <2>3
<1>2. CASE CollectiveStep
  BY <1>0, <1>2, SizesCurrentCollective
<1>3. CASE UNCHANGED vars
  <2>1. UNCHANGED <<pc, setenum, fset, indexingupdate, size>>
    BY <1>3 DEF vars
  <2>2. \A k \in SetEnum : \A s \in Holds[q] : Sized(q, k, s)' = Sized(q, k, s)
    BY <2>1 DEF Sized, InitSet
  <2>3. \A k \in SetEnum : Counted(q, k)' = Counted(q, k)
    BY <2>1 DEF Counted, InUse, Numbering
  <2>4. Checking(q)' = Checking(q)
    BY <2>1 DEF Checking
  <2> QED BY <1>0, <2>1, <2>2, <2>3, <2>4 DEF SizesCurrent
<1> QED BY <1>1, <1>2, <1>3 DEF Next

LEMMA SizesCurrentInvariance == Spec => [](\A r \in Rank : SizesCurrent(r))
BY SizesCurrentInit, SizesCurrentNext, TypeInvariance, PTL DEF Spec

\* The lists in use have the sizes of the current sets: no change of activity, no
\* constraint and no relaxation is missed by the renumbering.
THEOREM ListsAreCurrent == Spec => []ListsMatchSets
<1>1. (\A r \in Rank : SizesCurrent(r)) => ListsMatchSets
  BY DEF SizesCurrent, Counted, Sized, ListsMatchSets
<1> QED BY <1>1, SizesCurrentInvariance, PTL

\* No rank ever solves with lists that miss a change of activity, a constraint or a
\* relaxation.
THEOREM NoListIsOutdated == Spec => []IndexingIsCurrent
<1>1. ListsMatchSets /\ NoStaleIndices => IndexingIsCurrent
  BY DEF IndexingIsCurrent
<1> QED BY <1>1, ListsAreCurrent, NoListIsStale, PTL

-----------------------------------------------------------------------------
(***************************************************************************)
(* The numbers themselves.  When a set has been numbered, the dofs of a    *)
(* master are at the start of its rank, plus the dofs of the masters       *)
(* before it on that rank.  That this stays true until the lists are used  *)
(* is an invariant over all the ranks, because the start of a rank counts  *)
(* the masters of the ranks below it: it holds because the ranks advance   *)
(* in step (SamePhase), so that no rank recounts a set that another one is *)
(* still placing.                                                          *)
(***************************************************************************)

\* The table of the sizes of the masters among the copies H.
Own(H, c, z) == [s \in Sid |-> IF s \in H /\ ~c[s] THEN z[s] ELSE 0]

OwnSizes(r, k) == Own(Holds[r], clone[r], size[r][k])
Totals(k)      == [q \in Rank |-> RunningSum(OwnSizes(q, k), NumNodes)]

Local(r, k) ==
  \A s \in Holds[r] : ~clone[r][s] => \A j \in 0..(size[r][k][s] - 1) :
    doflist[r][k][s][j] = RunningSum(OwnSizes(r, k), s) + j

Placed(r, k) ==
  \A s \in Holds[r] : ~clone[r][s] => \A j \in 0..(size[r][k][s] - 1) :
    doflist[r][k][s][j] = RunningSum(Totals(k), r) + RunningSum(OwnSizes(r, k), s) + j

\* The sets that rank r has already placed in this round.
Done(r, k) ==
  \/ InUse(r)
  \/ /\ Numbering(r)
     /\ \/ k = setenum[r] /\ pc[r] \in {"maxdofs", "truedofs", "update clones"}
        \/ k = "f" /\ setenum[r] = "s"
        \/ k = "g" /\ setenum[r] \in {"f", "s"}

RankNumbered(r) ==
  /\ pc[r] \in {"counts", "offset"} => Local(r, setenum[r])
  /\ pc[r] = "counts" => dofcount[r] = RunningSum(OwnSizes(r, setenum[r]), NumNodes)
  /\ pc[r] = "offset" => alldofcount = Totals(setenum[r])
  /\ \A k \in SetEnum : Done(r, k) => Placed(r, k)
  /\ Checking(r) => (\A k \in SetEnum : Placed(r, k)) \/ (\A q \in Rank : Fresh(q))

NumberingInv == \A r \in Rank : RankNumbered(r)

-----------------------------------------------------------------------------
(***************************************************************************)
(* What the statements about the numbers depend on.                        *)
(***************************************************************************)
LEMMA OwnSizesKept ==
  ASSUME NEW q \in Rank, NEW k \in SetEnum,
         clone'[q] = clone[q], size'[q][k] = size[q][k]
  PROVE  OwnSizes(q, k)' = OwnSizes(q, k)
BY DEF OwnSizes

LEMMA TotalsKept ==
  ASSUME NEW k \in SetEnum,
         \A q \in Rank : clone'[q] = clone[q] /\ size'[q][k] = size[q][k]
  PROVE  Totals(k)' = Totals(k)
BY DEF Totals, OwnSizes

LEMMA LocalKept ==
  ASSUME NEW r \in Rank, NEW k \in SetEnum, Local(r, k),
         clone'[r] = clone[r], size'[r][k] = size[r][k], doflist'[r][k] = doflist[r][k]
  PROVE  Local(r, k)'
BY DEF Local, OwnSizes

LEMMA PlacedKept ==
  ASSUME NEW r \in Rank, NEW k \in SetEnum, Placed(r, k),
         \A q \in Rank : clone'[q] = clone[q] /\ size'[q][k] = size[q][k],
         \A s \in Holds[r] : ~clone[r][s] => doflist'[r][k][s] = doflist[r][k][s]
  PROVE  Placed(r, k)'
<1>1. Totals(k)' = Totals(k)
  BY TotalsKept
<1>2. clone'[r] = clone[r] /\ size'[r][k] = size[r][k]
  OBVIOUS
<1> QED BY <1>1, <1>2 DEF Placed, OwnSizes

LEMMA OwnSizesType ==
  ASSUME TypeInv, NEW r \in Rank, NEW k \in SetEnum
  PROVE  /\ OwnSizes(r, k) \in [0..(NumNodes - 1) -> Nat]
         /\ \A n \in 0..NumNodes : RunningSum(OwnSizes(r, k), n) \in Nat
<1>1. OwnSizes(r, k) \in [0..(NumNodes - 1) -> Nat]
  BY DEF OwnSizes, Own, Sid, TypeInv, SizeTypes
<1>2. NumNodes \in Nat
  BY SizeAssumption
<1> HIDE DEF OwnSizes
<1> QED BY <1>1, <1>2, RunningSumNat

LEMMA TotalsType ==
  ASSUME TypeInv, NEW k \in SetEnum
  PROVE  /\ Totals(k) \in [0..(NumProcs - 1) -> Nat]
         /\ \A n \in 0..NumProcs : RunningSum(Totals(k), n) \in Nat
<1>1. Totals(k) \in [0..(NumProcs - 1) -> Nat]
  <2>1. \A q \in Rank : RunningSum(OwnSizes(q, k), NumNodes) \in Nat
    BY OwnSizesType, SizeAssumption
  <2> QED BY <2>1 DEF Totals, Rank
<1>2. NumProcs \in Nat
  BY SizeAssumption
<1> HIDE DEF Totals
<1> QED BY <1>1, <1>2, RunningSumNat

-----------------------------------------------------------------------------
(***************************************************************************)
(* The invariant, action by action.                                        *)
(***************************************************************************)
LEMMA NumberingInit == Init => NumberingInv
BY DEF Init, NumberingInv, RankNumbered, Done, InUse, Numbering, Checking, Fresh

\* A step of another rank that changes no size and no master.
LEMMA NumberingOther ==
  ASSUME TypeInv, NEW r \in Rank, LocalStep(r), NEW q \in Rank, q # r, RankNumbered(q),
         clone' = clone, size' = size, ~ Checking(q)
  PROVE  RankNumbered(q)'
<1>1. /\ pc'[q] = pc[q] /\ setenum'[q] = setenum[q]
      /\ doflist'[q] = doflist[q] /\ dofcount'[q] = dofcount[q] /\ alldofcount' = alldofcount
  BY LocalStepFrame, LocalStepKeepsCollected
<1> DEFINE k == setenum[q]
<1>2. k \in SetEnum
  BY DEF TypeInv
<1>3. Local(q, k) => Local(q, k)'
  BY <1>1, <1>2, LocalKept
<1>4. OwnSizes(q, k)' = OwnSizes(q, k) /\ Totals(k)' = Totals(k)
  BY <1>1, <1>2, OwnSizesKept, TotalsKept
<1>5. ASSUME NEW l \in SetEnum, Placed(q, l)
      PROVE  Placed(q, l)'
  BY <1>1, <1>5, PlacedKept
<1>6. \A l \in SetEnum : Done(q, l)' = Done(q, l)
  BY <1>1 DEF Done, InUse, Numbering
<1>7. ~ Checking(q)'
  BY <1>1 DEF Checking
<1> QED BY <1>1, <1>3, <1>4, <1>5, <1>6, <1>7 DEF RankNumbered

LEMMA NumberingUpdateConstraints ==
  ASSUME TypeInv, SamePhase, NumberingInv, NEW r \in Rank, UpdateConstraints(r), NEW q \in Rank
  PROVE  RankNumbered(q)'
<1>1. UNCHANGED <<setenum, clone, size, doflist, dofcount, alldofcount>>
  BY DEF UpdateConstraints, commvars
<1>2. pc' = [pc EXCEPT ![r] = "reindex?"] /\ pc[r] = "update"
  BY DEF UpdateConstraints, Goto
<1>3. Checking(q)
  <2>1. Stage(r) = "check"
    BY <1>2 DEF Stage
  <2>2. Stage(q) = "check"
    BY <2>1 DEF SamePhase
  <2> QED BY <2>2 DEF Stage, Checking
<1>4. pc'[q] \in {"update", "reindex?"}
  BY <1>2, <1>3 DEF Checking, TypeInv
<1>5. ASSUME \A k \in SetEnum : Placed(q, k)
      PROVE  \A k \in SetEnum : Placed(q, k)'
  <2> SUFFICES ASSUME NEW k \in SetEnum PROVE Placed(q, k)'
    OBVIOUS
  <2> QED BY <1>1, <1>5, PlacedKept
<1>6. ASSUME \A p \in Rank : Fresh(p)
      PROVE  \A p \in Rank : Fresh(p)'
  BY <1>6 DEF UpdateConstraints, Fresh, TypeInv, NodeTypes, Copies
<1>7. (\A k \in SetEnum : Placed(q, k)) \/ (\A p \in Rank : Fresh(p))
  BY <1>3 DEF NumberingInv, RankNumbered
<1> QED BY <1>4, <1>5, <1>6, <1>7 DEF RankNumbered, Done, InUse, Numbering

\* When a rank flags its clones, no set is placed anywhere.
LEMMA NumberingSetClone ==
  ASSUME TypeInv, SamePhase, NumberingInv, NEW r \in Rank, SetClone(r), NEW q \in Rank
  PROVE  RankNumbered(q)'
<1>1. /\ pc[r] = "clones" /\ pc' = [pc EXCEPT ![r] = "distribute"]
      /\ setenum' = [setenum EXCEPT ![r] = "g"] /\ UNCHANGED <<size, doflist, dofcount>>
  BY DEF SetClone, Goto
<1>2. CASE q = r
  BY <1>1, <1>2 DEF RankNumbered, Done, InUse, Numbering, Checking, TypeInv
<1>3. CASE q # r
  <2>1. Stage(q) = "count" /\ StageSet(q) = "g"
    BY <1>1 DEF SamePhase, Stage, StageSet
  <2>2. pc[q] = "clones" \/ (pc[q] \in {"distribute", "counts"} /\ setenum[q] = "g")
    BY <2>1 DEF Stage, StageSet, NextSet
  <2>3. pc'[q] = pc[q] /\ setenum'[q] = setenum[q] /\ clone'[q] = clone[q]
    BY <1>1, <1>3, LocalStepFrame DEF LocalStep
  <2>4. \A k \in SetEnum : ~ Done(q, k)'
    BY <2>2, <2>3 DEF Done, InUse, Numbering
  <2>5. pc[q] = "counts" => setenum[q] = "g" /\ Local(q, "g") /\
                            dofcount[q] = RunningSum(OwnSizes(q, "g"), NumNodes)
    BY <2>2 DEF NumberingInv, RankNumbered
  <2>6. Local(q, "g") => Local(q, "g")'
    BY <1>1, <2>3, LocalKept DEF SetEnum
  <2>7. OwnSizes(q, "g")' = OwnSizes(q, "g")
    BY <1>1, <2>3, OwnSizesKept DEF SetEnum
  <2> QED BY <1>1, <2>2, <2>3, <2>4, <2>5, <2>6, <2>7 DEF RankNumbered, Checking
<1> QED BY <1>2, <1>3

\* The rank that numbers its masters starts from 0 and counts them all.
LEMMA DistributeDofsLocal ==
  ASSUME TypeInv, NEW r \in Rank, DistributeDofs(r), NEW k \in SetEnum, k = setenum[r]
  PROVE  /\ Local(r, k)'
         /\ dofcount'[r] = RunningSum(OwnSizes(r, k), NumNodes)'
<1>1. /\ clone' = clone
      /\ size' = [size EXCEPT ![r][k] = [s \in Holds[r] |-> InitSet(r, k, s)]]
      /\ doflist' = [doflist EXCEPT ![r][k] = [s \in Holds[r] |->
           IF clone[r][s] THEN CloneDofs(r, k, s) ELSE LocalDofs(r, k, s)]]
      /\ dofcount' = [dofcount EXCEPT ![r] = RunningSum(OwnDofs(r, k), NumNodes)]
  BY DEF DistributeDofs
<1>2. size'[r][k] = [s \in Holds[r] |-> InitSet(r, k, s)]
  BY <1>1 DEF TypeInv, SizeTypes
<1>3. OwnSizes(r, k)' = OwnDofs(r, k)
  BY <1>1, <1>2 DEF OwnSizes, Own, OwnDofs
<1>4. dofcount'[r] = RunningSum(OwnDofs(r, k), NumNodes)
  BY <1>1 DEF TypeInv, CountTypes
<1>5. ASSUME NEW s \in Holds[r], ~clone[r][s], NEW j \in 0..(size'[r][k][s] - 1)
      PROVE  doflist'[r][k][s][j] = RunningSum(OwnDofs(r, k), s) + j
  <2>1. doflist'[r][k][s] = LocalDofs(r, k, s)
    BY <1>1, <1>5 DEF TypeInv, ListTypes
  <2>2. size'[r][k][s] = InitSet(r, k, s)
    BY <1>2
  <2> QED BY <1>5, <2>1, <2>2 DEF LocalDofs
<1>6. Local(r, k)'
  BY <1>1, <1>3, <1>5 DEF Local
<1> QED BY <1>3, <1>4, <1>6

LEMMA NumberingDistributeDofs ==
  ASSUME TypeInv, SamePhase, NumberingInv, NEW r \in Rank, DistributeDofs(r), NEW q \in Rank
  PROVE  RankNumbered(q)'
<1>0. PICK k \in SetEnum : k = setenum[r]
  BY DEF TypeInv
<1>1. /\ pc[r] = "distribute" /\ pc' = [pc EXCEPT ![r] = "counts"]
      /\ setenum' = setenum /\ clone' = clone
  BY DEF DistributeDofs, Goto
<1>2. \A p \in Rank, l \in SetEnum : p # r \/ l # k =>
        size'[p][l] = size[p][l] /\ doflist'[p][l] = doflist[p][l]
  BY <1>0 DEF DistributeDofs, TypeInv, SizeTypes, ListTypes
<1>3. \A l \in SetEnum : Done(q, l)' => l # k /\ Done(q, l)
  <2>1. Stage(q) = "count" /\ StageSet(q) = k
    BY <1>0, <1>1 DEF SamePhase, Stage, StageSet
  <2>2. \/ pc[q] = "clones" /\ k = "g"
        \/ pc[q] \in {"distribute", "counts"} /\ setenum[q] = k
        \/ pc[q] = "update clones" /\ setenum[q] # "s" /\ k = NextSet(setenum[q])
    BY <2>1 DEF Stage, StageSet
  <2>3. pc'[q] = pc[q] \/ (q = r /\ pc'[q] = "counts")
    BY <1>1 DEF TypeInv
  <2>4. CASE pc[q] = "clones" /\ k = "g"
    BY <1>1, <2>3, <2>4 DEF Done, InUse, Numbering
  <2>5. CASE pc[q] \in {"distribute", "counts"} /\ setenum[q] = k
    BY <1>1, <2>3, <2>5 DEF Done, InUse, Numbering
  <2>6. CASE pc[q] = "update clones" /\ setenum[q] # "s" /\ k = NextSet(setenum[q])
    BY <1>1, <2>3, <2>6 DEF Done, InUse, Numbering, NextSet
  <2> QED BY <2>2, <2>4, <2>5, <2>6
<1>4. ASSUME NEW l \in SetEnum, Done(q, l)'
      PROVE  Placed(q, l)'
  <2>1. l # k /\ Placed(q, l)
    BY <1>3, <1>4 DEF NumberingInv, RankNumbered
  <2>2. \A p \in Rank : clone'[p] = clone[p] /\ size'[p][l] = size[p][l]
    BY <1>1, <1>2, <2>1
  <2>3. doflist'[q][l] = doflist[q][l]
    BY <1>2, <2>1
  <2> QED BY <2>1, <2>2, <2>3, PlacedKept
<1>5. ~ Checking(q)' /\ pc'[q] # "offset"
  <2>1. Stage(q) = "count"
    BY <1>1 DEF SamePhase, Stage
  <2> QED BY <1>1, <2>1 DEF Stage, Checking, TypeInv
<1>6. pc'[q] = "counts" => Local(q, setenum[q])' /\
                           dofcount'[q] = RunningSum(OwnSizes(q, setenum[q]), NumNodes)'
  <2>1. CASE q = r
    <3>1. Local(r, k)' /\ dofcount'[r] = RunningSum(OwnSizes(r, k), NumNodes)'
      BY <1>0, DistributeDofsLocal
    <3>2. setenum'[q] = k
      BY <1>0, <1>1, <2>1
    <3> QED BY <2>1, <3>1, <3>2
  <2>2. CASE q # r
    <3>1. PICK l \in SetEnum : l = setenum[q]
      BY DEF TypeInv
    <3>2. /\ pc'[q] = pc[q] /\ clone'[q] = clone[q] /\ size'[q] = size[q]
          /\ doflist'[q] = doflist[q] /\ dofcount'[q] = dofcount[q]
      BY <2>2, LocalStepFrame DEF LocalStep
    <3>3. pc[q] = "counts" => Local(q, l) /\ dofcount[q] = RunningSum(OwnSizes(q, l), NumNodes)
      BY <3>1 DEF NumberingInv, RankNumbered
    <3>4. Local(q, l) => Local(q, l)'
      BY <3>2, LocalKept
    <3>5. OwnSizes(q, l)' = OwnSizes(q, l)
      BY <3>2, OwnSizesKept
    <3>6. setenum'[q] = l
      BY <1>1, <3>1
    <3> QED BY <3>2, <3>3, <3>4, <3>5, <3>6
  <2> QED BY <2>1, <2>2
<1> QED BY <1>4, <1>5, <1>6 DEF RankNumbered

LEMMA OffsetDofsPlaced ==
  ASSUME TypeInv, NEW r \in Rank, OffsetDofs(r), NEW k \in SetEnum, k = setenum[r],
         Local(r, k), alldofcount = Totals(k)
  PROVE  Placed(r, k)'
<1>1. /\ clone' = clone /\ size' = size
      /\ doflist' = [doflist EXCEPT ![r][k] = [s \in Holds[r] |->
           IF clone[r][s] THEN doflist[r][k][s]
           ELSE [j \in 0..(size[r][k][s] - 1) |-> doflist[r][k][s][j] + Offset(r, k)]]]
  BY DEF OffsetDofs
<1>2. Offset(r, k) = RunningSum(Totals(k), r)
  BY DEF Offset
<1>3. Totals(k)' = Totals(k) /\ OwnSizes(r, k)' = OwnSizes(r, k)
  BY <1>1, TotalsKept, OwnSizesKept
<1>4. ASSUME NEW s \in Holds[r], ~clone[r][s], NEW j \in 0..(size[r][k][s] - 1)
      PROVE  doflist'[r][k][s][j] = RunningSum(Totals(k), r) + RunningSum(OwnSizes(r, k), s) + j
  <2>1. doflist'[r][k][s] = [i \in 0..(size[r][k][s] - 1) |-> doflist[r][k][s][i] + Offset(r, k)]
    BY <1>1, <1>4 DEF TypeInv, ListTypes
  <2>2. doflist[r][k][s][j] = RunningSum(OwnSizes(r, k), s) + j
    BY <1>4 DEF Local
  <2>3. doflist'[r][k][s][j] = RunningSum(OwnSizes(r, k), s) + j + RunningSum(Totals(k), r)
    BY <1>2, <2>1, <2>2
  <2>4. RunningSum(Totals(k), r) \in Nat
    BY TotalsType, SizeAssumption DEF Rank
  <2>5. RunningSum(OwnSizes(r, k), s) \in Nat
    BY OwnSizesType, HoldsType, SizeAssumption DEF Sid
  <2>6. j \in Int
    OBVIOUS
  <2> QED BY <2>3, <2>4, <2>5, <2>6
<1> QED BY <1>1, <1>3, <1>4 DEF Placed

LEMMA NumberingOffsetDofs ==
  ASSUME TypeInv, SamePhase, NumberingInv, NEW r \in Rank, OffsetDofs(r), NEW q \in Rank
  PROVE  RankNumbered(q)'
<1>1. /\ pc[r] = "offset" /\ pc' = [pc EXCEPT ![r] = "maxdofs"]
      /\ setenum' = setenum /\ clone' = clone /\ size' = size
  BY DEF OffsetDofs, Goto
<1>2. CASE q # r
  <2>1. ~ Checking(q)
    BY <1>1 DEF SamePhase, Stage, Checking
  <2> QED BY <1>1, <1>2, <2>1, NumberingOther DEF NumberingInv, LocalStep
<1>3. CASE q = r
  <2>1. PICK k \in SetEnum : k = setenum[r]
    BY DEF TypeInv
  <2>2. Local(r, k) /\ alldofcount = Totals(k)
    BY <1>1, <2>1 DEF NumberingInv, RankNumbered
  <2>3. Placed(r, k)'
    BY <2>1, <2>2, OffsetDofsPlaced
  <2>4. ASSUME NEW l \in SetEnum, Done(r, l)', l # k
        PROVE  Placed(r, l)'
    <3>1. Done(r, l)
      BY <1>1, <2>1, <2>4 DEF Done, InUse, Numbering, TypeInv
    <3>2. Placed(r, l)
      BY <3>1 DEF NumberingInv, RankNumbered
    <3>3. doflist'[r][l] = doflist[r][l]
      BY <2>1, <2>4 DEF OffsetDofs, TypeInv, ListTypes
    <3> QED BY <1>1, <3>2, <3>3, PlacedKept
  <2>5. pc'[r] = "maxdofs"
    BY <1>1 DEF TypeInv
  <2> QED BY <1>3, <2>3, <2>4, <2>5 DEF RankNumbered, Checking
<1> QED BY <1>2, <1>3

LEMMA NumberingUpdateCloneDofs ==
  ASSUME TypeInv, SamePhase, NumberingInv, NEW r \in Rank, UpdateCloneDofs(r), NEW q \in Rank
  PROVE  RankNumbered(q)'
<1>1. PICK k \in SetEnum : k = setenum[r]
  BY DEF TypeInv
<1>2. /\ pc[r] = "update clones"
      /\ pc' = [pc EXCEPT ![r] = IF k = "s" THEN "solve" ELSE "distribute"]
      /\ doflist' = [doflist EXCEPT ![r][k] = [s \in Holds[r] |->
           IF clone[r][s] THEN [j \in 0..(size[r][k][s] - 1) |-> alltruedofs[s][j]]
           ELSE doflist[r][k][s]]]
      /\ setenum' = [setenum EXCEPT ![r] = NextSet(k)]
      /\ clone' = clone /\ size' = size
  BY <1>1 DEF UpdateCloneDofs, Goto
<1>3. CASE q # r
  <2>1. Stage(r) \in {"count", "use"}
    BY <1>2 DEF Stage
  <2>2. ~ Checking(q)
    BY <2>1 DEF SamePhase, Stage, Checking
  <2> QED BY <1>2, <1>3, <2>2, NumberingOther DEF NumberingInv, LocalStep
<1>4. CASE q = r
  <2>1. pc'[r] \in {"solve", "distribute"} /\ (pc'[r] = "solve" => k = "s")
    BY <1>2 DEF TypeInv
  <2>2. ASSUME NEW l \in SetEnum, Done(r, l)'
        PROVE  Placed(r, l)'
    <3>1. setenum'[r] = NextSet(k)
      BY <1>2 DEF TypeInv
    <3>2. Done(r, l)
      BY <1>1, <1>2, <2>1, <2>2, <3>1 DEF Done, InUse, Numbering, NextSet, SetEnum
    <3>3. Placed(r, l)
      BY <3>2 DEF NumberingInv, RankNumbered
    <3>4. \A s \in Holds[r] : ~clone[r][s] => doflist'[r][l][s] = doflist[r][l][s]
      BY <1>1, <1>2 DEF TypeInv, ListTypes
    <3> QED BY <1>2, <3>3, <3>4, PlacedKept
  <2> QED BY <1>4, <2>1, <2>2 DEF RankNumbered, Checking
<1> QED BY <1>3, <1>4

LEMMA NumberingSolve ==
  ASSUME TypeInv, SamePhase, NumberingInv, NEW r \in Rank, Solve(r), NEW q \in Rank
  PROVE  RankNumbered(q)'
<1>1. /\ pc[r] = "solve" /\ pc' = [pc EXCEPT ![r] = "mask"]
      /\ setenum' = setenum /\ clone' = clone /\ size' = size /\ doflist' = doflist
  BY DEF Solve, Goto
<1>2. CASE q # r
  <2>1. ~ Checking(q)
    BY <1>1 DEF SamePhase, Stage, Checking
  <2> QED BY <1>1, <1>2, <2>1, NumberingOther DEF NumberingInv, LocalStep
<1>3. CASE q = r
  <2>1. pc'[r] = "mask"
    BY <1>1 DEF TypeInv
  <2>2. ASSUME NEW l \in SetEnum
        PROVE  Placed(r, l)'
    <3>1. Placed(r, l)
      BY <1>1 DEF NumberingInv, RankNumbered, Done, InUse
    <3> QED BY <1>1, <3>1, PlacedKept
  <2> QED BY <1>3, <2>1, <2>2 DEF RankNumbered, Checking
<1> QED BY <1>2, <1>3

\* A collective changes no copy: what it has to establish is only what the ranks
\* rely on at their next step.
LEMMA NumberingCollective ==
  ASSUME TypeInv, SamePhase, NumberingInv, CollectiveStep, NEW q \in Rank
  PROVE  RankNumbered(q)'
<1>0. UNCHANGED <<setenum, clone, size, doflist, dofcount, indexingupdate>>
  BY CollectiveStepFrame
<1>1. PICK k \in SetEnum : k = setenum[q]
  BY DEF TypeInv
<1>2. ASSUME NEW l \in SetEnum, Placed(q, l)
      PROVE  Placed(q, l)'
  BY <1>0, <1>2, PlacedKept
<1>3. RankNumbered(q)
  BY DEF NumberingInv
<1>4. CASE RequiresDofReindexing
  <2>1. Checking(q) /\ pc'[q] = IF MustReindex(q) THEN "ranks" ELSE "solve"
    BY <1>4 DEF RequiresDofReindexing, Checking
  <2>2. CASE MustReindex(q)
    BY <2>1, <2>2 DEF RankNumbered, Checking, Done, InUse, Numbering
  <2>3. CASE ~ MustReindex(q)
    <3>1. 0 \in Sid
      BY SizeAssumption DEF Sid
    <3>2. PICK p \in Rank : 0 \in Holds[p]
      BY <3>1, PartitionAssumption
    <3>3. ~ Fresh(p)
      BY <2>3, <3>2 DEF MustReindex, Fresh
    <3>4. \A l \in SetEnum : Placed(q, l)
      BY <1>3, <2>1, <3>3 DEF RankNumbered
    <3> QED BY <1>2, <2>1, <2>3, <3>4 DEF RankNumbered, Checking
  <2> QED BY <2>2, <2>3
<1>5. CASE AllreduceRanks
  BY <1>5 DEF AllreduceRanks, Collective, RankNumbered, Checking, Done, InUse, Numbering
<1>6. CASE GatherCounts
  <2>1. /\ pc[q] = "counts" /\ pc'[q] = "offset" /\ alldofcount' = dofcount
        /\ \A p \in Rank : pc[p] = "counts"
    BY <1>6 DEF GatherCounts, Collective
  <2>2. \A p \in Rank : dofcount[p] = RunningSum(OwnSizes(p, k), NumNodes)
    <3>1. \A p \in Rank : setenum[p] = k
      BY <1>1, <2>1 DEF SamePhase, StageSet
    <3> QED BY <2>1, <3>1 DEF NumberingInv, RankNumbered
  <2>3. dofcount = Totals(k)
    BY <2>2 DEF Totals, TypeInv, CountTypes
  <2>4. Local(q, k)' /\ Totals(k)' = Totals(k) /\ setenum'[q] = k
    <3>1. Local(q, k)
      BY <1>1, <1>3, <2>1 DEF RankNumbered
    <3> QED BY <1>0, <1>1, <3>1, LocalKept, TotalsKept
  <2>5. \A l \in SetEnum : Done(q, l)' => Done(q, l)
    BY <1>0, <2>1 DEF Done, InUse, Numbering
  <2> QED BY <1>2, <1>3, <2>1, <2>3, <2>4, <2>5 DEF RankNumbered, Checking
<1>7. CASE MaxNumDofs
  <2>1. pc[q] = "maxdofs" /\ pc'[q] = "truedofs"
    BY <1>7 DEF MaxNumDofs, Collective
  <2>2. \A l \in SetEnum : Done(q, l)' => Done(q, l)
    BY <1>0, <2>1 DEF Done, InUse, Numbering
  <2> QED BY <1>2, <1>3, <2>1, <2>2 DEF RankNumbered, Checking
<1>8. CASE AllreduceTrueDofs
  <2>1. pc[q] = "truedofs" /\ pc'[q] = "update clones"
    BY <1>8 DEF AllreduceTrueDofs, Collective
  <2>2. \A l \in SetEnum : Done(q, l)' => Done(q, l)
    BY <1>0, <2>1 DEF Done, InUse, Numbering
  <2> QED BY <1>2, <1>3, <2>1, <2>2 DEF RankNumbered, Checking
<1>9. CASE AssembleMask
  <2>1. pc[q] = "mask" /\ pc'[q] = "update"
    BY <1>9 DEF AssembleMask, Collective
  <2>2. \A l \in SetEnum : Placed(q, l)
    BY <1>3, <2>1 DEF RankNumbered, Done, InUse
  <2> QED BY <1>2, <2>1, <2>2 DEF RankNumbered, Done, InUse, Numbering
<1> QED BY <1>4, <1>5, <1>6, <1>7, <1>8, <1>9 DEF CollectiveStep

LEMMA NumberingNext == TypeInv /\ SamePhase /\ NumberingInv /\ [Next]_vars => NumberingInv'
<1> SUFFICES ASSUME TypeInv, SamePhase, NumberingInv, [Next]_vars, NEW q \in Rank
             PROVE  RankNumbered(q)'
  BY DEF NumberingInv
<1>1. CASE \E r \in Rank : LocalStep(r)
  <2>1. PICK r \in Rank : LocalStep(r)
    BY <1>1
  <2> QED BY <2>1, NumberingUpdateConstraints, NumberingSetClone, NumberingDistributeDofs,
             NumberingOffsetDofs, NumberingUpdateCloneDofs, NumberingSolve DEF LocalStep
<1>2. CASE CollectiveStep
  BY <1>2, NumberingCollective
<1>3. CASE UNCHANGED vars
  <2>1. UNCHANGED <<pc, setenum, clone, size, doflist, dofcount, alldofcount, indexingupdate>>
    BY <1>3 DEF vars
  <2>2. RankNumbered(q)
    BY DEF NumberingInv
  <2>3. PICK k \in SetEnum : k = setenum[q]
    BY DEF TypeInv
  <2>4. (Local(q, k) => Local(q, k)') /\ OwnSizes(q, k)' = OwnSizes(q, k) /\ Totals(k)' = Totals(k)
    BY <2>1, LocalKept, OwnSizesKept, TotalsKept
  <2>5. ASSUME NEW l \in SetEnum, Placed(q, l)
        PROVE  Placed(q, l)'
    BY <2>1, <2>5, PlacedKept
  <2>6. \A l \in SetEnum : Done(q, l)' = Done(q, l)
    BY <2>1 DEF Done, InUse, Numbering
  <2>7. Checking(q)' = Checking(q) /\ \A p \in Rank : Fresh(p)' = Fresh(p)
    BY <2>1 DEF Checking, Fresh
  <2> QED BY <2>1, <2>2, <2>3, <2>4, <2>5, <2>6, <2>7 DEF RankNumbered
<1> QED BY <1>1, <1>2, <1>3 DEF Next

LEMMA NumberingInvariance == Spec => []NumberingInv
BY NumberingInit, NumberingNext, TypeInvariance, SamePhaseInvariance, PTL DEF Spec

-----------------------------------------------------------------------------
(***************************************************************************)
(* The numbers in use.                                                     *)
(***************************************************************************)
IsDof(r, k, s, j) == s \in Holds[r] /\ Master(r, s) /\ j \in 0..(size[r][k][s] - 1)

\* The number of a dof lies in the block of its node, which lies in the block of
\* its rank.
LEMMA DofPosition ==
  ASSUME TypeInv, NEW r \in Rank, NEW k \in SetEnum, Placed(r, k), NEW s, NEW j, IsDof(r, k, s, j)
  PROVE  LET start == RunningSum(Totals(k), r)
             before == RunningSum(OwnSizes(r, k), s)
         IN  /\ start \in Nat /\ before \in Nat /\ j \in Nat /\ s \in 0..(NumNodes - 1)
             /\ doflist[r][k][s][j] = start + before + j
             /\ j < OwnSizes(r, k)[s]
             /\ OwnSizes(r, k)[s] \in Nat
             /\ Totals(k)[r] \in Nat
             /\ before + OwnSizes(r, k)[s] <= Totals(k)[r]
<1>1. s \in Sid /\ s \in Holds[r] /\ ~clone[r][s] /\ j \in 0..(size[r][k][s] - 1)
  BY HoldsType DEF IsDof, Master
<1>2. RunningSum(Totals(k), r) \in Nat
  BY TotalsType, SizeAssumption DEF Rank
<1>3. RunningSum(OwnSizes(r, k), s) \in Nat
  BY <1>1, OwnSizesType, SizeAssumption DEF Sid
<1>4. size[r][k][s] \in Nat /\ OwnSizes(r, k)[s] = size[r][k][s]
  BY <1>1 DEF OwnSizes, Own, TypeInv, SizeTypes
<1>5. j \in Nat /\ j < size[r][k][s]
  BY <1>1, <1>4
<1>6. doflist[r][k][s][j] = RunningSum(Totals(k), r) + RunningSum(OwnSizes(r, k), s) + j
  BY <1>1 DEF Placed
<1>7. Totals(k)[r] = RunningSum(OwnSizes(r, k), NumNodes) /\ Totals(k)[r] \in Nat
  BY OwnSizesType, SizeAssumption DEF Totals
<1>8. RunningSum(OwnSizes(r, k), s) + OwnSizes(r, k)[s] <= RunningSum(OwnSizes(r, k), NumNodes)
  <2>1. OwnSizes(r, k) \in [0..(NumNodes - 1) -> Nat] /\ NumNodes \in Nat
    BY OwnSizesType, SizeAssumption
  <2>2. s \in 0..(NumNodes - 1) /\ NumNodes \in 0..NumNodes /\ s < NumNodes
    BY <1>1, SizeAssumption DEF Sid
  <2> QED BY <2>1, <2>2, RunningSumOrdered
<1>9. s \in 0..(NumNodes - 1)
  BY <1>1 DEF Sid
<1> QED BY <1>2, <1>3, <1>4, <1>5, <1>6, <1>7, <1>8, <1>9

\* The block of a rank ends before the block of a rank above it begins.
LEMMA RanksOrdered ==
  ASSUME TypeInv, NEW k \in SetEnum, NEW r1 \in Rank, NEW r2 \in Rank, r1 < r2
  PROVE  RunningSum(Totals(k), r1) + Totals(k)[r1] <= RunningSum(Totals(k), r2)
<1>1. Totals(k) \in [0..(NumProcs - 1) -> Nat] /\ NumProcs \in Nat
  BY TotalsType, SizeAssumption
<1>2. r1 \in 0..(NumProcs - 1) /\ r2 \in 0..NumProcs
  BY SizeAssumption DEF Rank
<1> QED BY <1>1, <1>2, RunningSumOrdered

LEMMA NodesOrdered ==
  ASSUME TypeInv, NEW k \in SetEnum, NEW r \in Rank,
         NEW s1 \in 0..(NumNodes - 1), NEW s2 \in 0..(NumNodes - 1), s1 < s2
  PROVE  RunningSum(OwnSizes(r, k), s1) + OwnSizes(r, k)[s1] <= RunningSum(OwnSizes(r, k), s2)
<1>1. OwnSizes(r, k) \in [0..(NumNodes - 1) -> Nat] /\ NumNodes \in Nat
  BY OwnSizesType, SizeAssumption
<1>2. s2 \in 0..NumNodes
  BY SizeAssumption
<1> QED BY <1>1, <1>2, RunningSumOrdered

LEMMA DofsOrdered ==
  ASSUME TypeInv, NEW k \in SetEnum, NEW r1 \in Rank, NEW r2 \in Rank, r1 < r2,
         Placed(r1, k), Placed(r2, k),
         NEW s1, NEW j1, IsDof(r1, k, s1, j1), NEW s2, NEW j2, IsDof(r2, k, s2, j2)
  PROVE  doflist[r1][k][s1][j1] < doflist[r2][k][s2][j2]
<1> DEFINE start1 == RunningSum(Totals(k), r1)
<1> DEFINE start2 == RunningSum(Totals(k), r2)
<1> DEFINE before1 == RunningSum(OwnSizes(r1, k), s1)
<1> DEFINE before2 == RunningSum(OwnSizes(r2, k), s2)
<1> DEFINE own1 == OwnSizes(r1, k)[s1]
<1> DEFINE total1 == Totals(k)[r1]
<1>1. /\ start1 \in Nat /\ before1 \in Nat /\ j1 \in Nat /\ own1 \in Nat /\ total1 \in Nat
      /\ doflist[r1][k][s1][j1] = start1 + before1 + j1
      /\ j1 < own1 /\ before1 + own1 <= total1
  BY DofPosition
<1>2. /\ start2 \in Nat /\ before2 \in Nat /\ j2 \in Nat
      /\ doflist[r2][k][s2][j2] = start2 + before2 + j2
  BY DofPosition
<1>3. start1 + total1 <= start2
  BY RanksOrdered
<1> HIDE DEF start1, start2, before1, before2, own1, total1
<1>4. start1 + before1 + j1 < start2 + before2 + j2
  BY <1>1, <1>2, <1>3
<1> QED BY <1>1, <1>2, <1>4

LEMMA DofsDistinctOnRank ==
  ASSUME TypeInv, NEW k \in SetEnum, NEW r \in Rank, Placed(r, k),
         NEW s1, NEW j1, IsDof(r, k, s1, j1), NEW s2, NEW j2, IsDof(r, k, s2, j2),
         doflist[r][k][s1][j1] = doflist[r][k][s2][j2]
  PROVE  s1 = s2 /\ j1 = j2
<1> DEFINE start == RunningSum(Totals(k), r)
<1> DEFINE b(s) == RunningSum(OwnSizes(r, k), s)
<1> DEFINE w(s) == OwnSizes(r, k)[s]
<1>1. /\ start \in Nat /\ b(s1) \in Nat /\ j1 \in Nat /\ w(s1) \in Nat /\ j1 < w(s1)
      /\ s1 \in 0..(NumNodes - 1) /\ doflist[r][k][s1][j1] = start + b(s1) + j1
  BY DofPosition
<1>2. /\ b(s2) \in Nat /\ j2 \in Nat /\ w(s2) \in Nat /\ j2 < w(s2)
      /\ s2 \in 0..(NumNodes - 1) /\ doflist[r][k][s2][j2] = start + b(s2) + j2
  BY DofPosition
<1>3. s1 < s2 => b(s1) + w(s1) <= b(s2)
  BY <1>1, <1>2, NodesOrdered
<1>4. s2 < s1 => b(s2) + w(s2) <= b(s1)
  BY <1>1, <1>2, NodesOrdered
<1>5. start + b(s1) + j1 = start + b(s2) + j2
  BY <1>1, <1>2
<1> HIDE DEF start, b, w
<1>6. ~ (s1 < s2) /\ ~ (s2 < s1)
  BY <1>1, <1>2, <1>3, <1>4, <1>5
<1>7. s1 = s2
  BY <1>1, <1>2, <1>6
<1> QED BY <1>1, <1>2, <1>5, <1>7

\* Every rank that uses its lists has placed every set.
LEMMA InUsePlaced ==
  ASSUME NumberingInv, NEW r \in Rank, InUse(r), NEW k \in SetEnum
  PROVE  Placed(r, k)
BY DEF NumberingInv, RankNumbered, Done

\* No two masters use the same number once the sets are placed.
LEMMA PlacedAreUnique == TypeInv /\ NumberingInv => UniqueDofs
<1> SUFFICES ASSUME TypeInv, NumberingInv, NEW k \in SetEnum, NEW r1 \in Rank, NEW r2 \in Rank,
                    NEW s1 \in Holds[r1], NEW s2 \in Holds[r2],
                    InUse(r1), InUse(r2), Master(r1, s1), Master(r2, s2),
                    NEW j1 \in 0..(size[r1][k][s1] - 1), NEW j2 \in 0..(size[r2][k][s2] - 1),
                    doflist[r1][k][s1][j1] = doflist[r2][k][s2][j2]
             PROVE  r1 = r2 /\ s1 = s2 /\ j1 = j2
  BY DEF UniqueDofs
<1>1. Placed(r1, k) /\ Placed(r2, k)
  BY InUsePlaced
<1>2. IsDof(r1, k, s1, j1) /\ IsDof(r2, k, s2, j2)
  BY DEF IsDof
<1>3. doflist[r1][k][s1][j1] \in Int /\ doflist[r2][k][s2][j2] \in Int
  <2>1. doflist[r1][k][s1] \in [0..(size[r1][k][s1] - 1) -> Int]
    BY DEF TypeInv, ListTypes
  <2>2. doflist[r2][k][s2] \in [0..(size[r2][k][s2] - 1) -> Int]
    BY DEF TypeInv, ListTypes
  <2> QED BY <2>1, <2>2
<1>4. ~ (r1 < r2)
  <2> SUFFICES ASSUME r1 < r2 PROVE FALSE
    OBVIOUS
  <2>1. doflist[r1][k][s1][j1] < doflist[r2][k][s2][j2]
    BY <1>1, <1>2, DofsOrdered
  <2> QED BY <1>3, <2>1
<1>5. ~ (r2 < r1)
  <2> SUFFICES ASSUME r2 < r1 PROVE FALSE
    OBVIOUS
  <2>1. doflist[r2][k][s2][j2] < doflist[r1][k][s1][j1]
    BY <1>1, <1>2, DofsOrdered
  <2> QED BY <1>3, <2>1
<1>6. r1 = r2
  BY <1>4, <1>5 DEF Rank
<1> QED BY <1>1, <1>2, <1>6, DofsDistinctOnRank

\* No two masters use the same number: whatever the partition, the constraints and
\* the dofs of each node.
THEOREM DofsAreUnique == Spec => []UniqueDofs
BY PlacedAreUnique, TypeInvariance, NumberingInvariance, PTL

\* Every row belongs to one dof of one node of one rank.
THEOREM EveryRowHasOneDof == Spec => []RowsHaveOneOwner
<1>1. OneMaster /\ UniqueDofs => RowsHaveOneOwner
  BY DEF RowsHaveOneOwner
<1> QED BY <1>1, EveryNodeHasOneMaster, DofsAreUnique, PTL

\* The numbers of a rank are below those of every rank above it.
THEOREM RanksAreBlocks == Spec => []RankBlocks
<1>1. TypeInv /\ NumberingInv => RankBlocks
  <2> SUFFICES ASSUME TypeInv, NumberingInv, NEW k \in SetEnum, NEW r1 \in Rank, NEW r2 \in Rank,
                      NEW s1 \in Holds[r1], NEW s2 \in Holds[r2],
                      InUse(r1), InUse(r2), Master(r1, s1), Master(r2, s2), r1 < r2,
                      NEW j1 \in 0..(size[r1][k][s1] - 1), NEW j2 \in 0..(size[r2][k][s2] - 1)
               PROVE  doflist[r1][k][s1][j1] < doflist[r2][k][s2][j2]
    BY DEF RankBlocks
  <2>1. Placed(r1, k) /\ Placed(r2, k)
    BY InUsePlaced
  <2>2. IsDof(r1, k, s1, j1) /\ IsDof(r2, k, s2, j2)
    BY DEF IsDof
  <2> QED BY <2>1, <2>2, DofsOrdered
<1> QED BY <1>1, TypeInvariance, NumberingInvariance, PTL

\* Every number below the total belongs to some dof of some master.
LEMMA NumberUsed ==
  ASSUME TypeInv, NEW k \in SetEnum, \A r \in Rank : Placed(r, k),
         NEW y \in Nat, y < RunningSum(Totals(k), NumProcs)
  PROVE  y \in UsedDofs(k)
<1>1. Totals(k) \in [0..(NumProcs - 1) -> Nat] /\ NumProcs \in Nat
  BY TotalsType, SizeAssumption
<1>2. PICK r \in 0..(NumProcs - 1) : /\ RunningSum(Totals(k), r) <= y
                                     /\ y < RunningSum(Totals(k), r) + Totals(k)[r]
  BY <1>1, NumProcs \in 0..NumProcs, RunningSumCovers
<1>3. r \in Rank
  BY DEF Rank
<1>4. RunningSum(Totals(k), r) \in Nat
  BY <1>3, TotalsType, SizeAssumption DEF Rank
<1>5. OwnSizes(r, k) \in [0..(NumNodes - 1) -> Nat] /\ NumNodes \in Nat /\ Totals(k)[r] \in Nat
      /\ Totals(k)[r] = RunningSum(OwnSizes(r, k), NumNodes)
  BY <1>1, <1>3, OwnSizesType, SizeAssumption DEF Totals
<1> DEFINE z == y - RunningSum(Totals(k), r)
<1>6. z \in Nat /\ z < RunningSum(OwnSizes(r, k), NumNodes)
  BY <1>2, <1>4, <1>5
<1>7. PICK s \in 0..(NumNodes - 1) : /\ RunningSum(OwnSizes(r, k), s) <= z
                                     /\ z < RunningSum(OwnSizes(r, k), s) + OwnSizes(r, k)[s]
  <2> HIDE DEF z
  <2> QED BY <1>5, <1>6, NumNodes \in 0..NumNodes, RunningSumCovers
<1>8. RunningSum(OwnSizes(r, k), s) \in Nat /\ OwnSizes(r, k)[s] \in Nat
  <2>1. s \in 0..NumNodes
    BY <1>5
  <2> QED BY <1>3, <1>5, <2>1, OwnSizesType
<1>9. OwnSizes(r, k)[s] # 0
  BY <1>6, <1>7, <1>8
<1>10. s \in Holds[r] /\ ~clone[r][s] /\ OwnSizes(r, k)[s] = size[r][k][s]
  BY <1>9 DEF OwnSizes, Own, Sid
<1> DEFINE j == z - RunningSum(OwnSizes(r, k), s)
<1>11. j \in 0..(size[r][k][s] - 1)
  <2> HIDE DEF z
  <2> QED BY <1>6, <1>7, <1>8, <1>10
<1>12. doflist[r][k][s][j] = RunningSum(Totals(k), r) + RunningSum(OwnSizes(r, k), s) + j
  <2> HIDE DEF j
  <2> QED BY <1>3, <1>10, <1>11 DEF Placed
<1>13. doflist[r][k][s][j] = y
  <2>1. RunningSum(Totals(k), r) + RunningSum(OwnSizes(r, k), s) + j = y
    BY <1>4, <1>8
  <2> QED BY <1>12, <2>1
<1> HIDE DEF j
<1> QED BY <1>3, <1>10, <1>11, <1>13 DEF UsedDofs, Master

\* Every number used is below the total.
LEMMA UsedNumber ==
  ASSUME TypeInv, NEW k \in SetEnum, \A r \in Rank : Placed(r, k), NEW x \in UsedDofs(k)
  PROVE  x \in Nat /\ x < RunningSum(Totals(k), NumProcs)
<1>a. PICK r \in Rank : \E s \in Holds[r] : Master(r, s) /\
        \E j \in 0..(size[r][k][s] - 1) : x = doflist[r][k][s][j]
  BY DEF UsedDofs
<1>b. PICK s \in Holds[r] : Master(r, s) /\
        \E j \in 0..(size[r][k][s] - 1) : x = doflist[r][k][s][j]
  BY <1>a
<1>1. PICK j \in 0..(size[r][k][s] - 1) : x = doflist[r][k][s][j]
  BY <1>b
<1>2. IsDof(r, k, s, j)
  BY <1>b DEF IsDof
<1> DEFINE start == RunningSum(Totals(k), r)
<1> DEFINE before == RunningSum(OwnSizes(r, k), s)
<1> DEFINE own == OwnSizes(r, k)[s]
<1> DEFINE total == Totals(k)[r]
<1>3. /\ start \in Nat /\ before \in Nat /\ j \in Nat /\ own \in Nat /\ total \in Nat
      /\ doflist[r][k][s][j] = start + before + j /\ j < own /\ before + own <= total
  BY <1>2, DofPosition
<1>4. start + total <= RunningSum(Totals(k), NumProcs)
  <2>1. Totals(k) \in [0..(NumProcs - 1) -> Nat] /\ NumProcs \in Nat
    BY TotalsType, SizeAssumption
  <2>2. r \in 0..(NumProcs - 1) /\ NumProcs \in 0..NumProcs /\ r < NumProcs
    BY SizeAssumption DEF Rank
  <2> QED BY <2>1, <2>2, RunningSumOrdered
<1>5. RunningSum(Totals(k), NumProcs) \in Nat
  BY TotalsType, SizeAssumption
<1> HIDE DEF start, before, own, total
<1> QED BY <1>1, <1>3, <1>4, <1>5

\* No number is left out below the largest one.
THEOREM DofsAreDense == Spec => []DenseDofs
<1>1. TypeInv /\ NumberingInv => DenseDofs
  <2> SUFFICES ASSUME TypeInv, NumberingInv, \A r \in Rank : InUse(r), NEW k \in SetEnum,
                      NEW x \in UsedDofs(k)
               PROVE  x >= 0 /\ 0..x \subseteq UsedDofs(k)
    BY DEF DenseDofs
  <2>1. \A r \in Rank : Placed(r, k)
    BY InUsePlaced
  <2>2. x \in Nat /\ x < RunningSum(Totals(k), NumProcs)
    BY <2>1, UsedNumber
  <2>3. RunningSum(Totals(k), NumProcs) \in Nat
    BY TotalsType, SizeAssumption
  <2>4. ASSUME NEW y \in 0..x
        PROVE  y \in UsedDofs(k)
    <3>1. y \in Nat /\ y < RunningSum(Totals(k), NumProcs)
      BY <2>2, <2>3
    <3> QED BY <2>1, <3>1, NumberUsed
  <2> QED BY <2>2, <2>4
<1> QED BY <1>1, TypeInvariance, NumberingInvariance, PTL

\* Both: the rows of a rank follow those of the ranks below it, without a gap.
THEOREM RowsAreInRankOrder == Spec => []RowsFollowRanks
<1>1. RankBlocks /\ DenseDofs => RowsFollowRanks
  BY DEF RowsFollowRanks
<1> QED BY <1>1, RanksAreBlocks, DofsAreDense, PTL

-----------------------------------------------------------------------------
(***************************************************************************)
(* The copies of a node.  They have the same dof sets, and so the same     *)
(* numbers, as long as every rank that has a copy also has an element that *)
(* visits it: a copy that only a pairing has brought to a rank is not      *)
(* activated with the others.  While some ranks have updated their         *)
(* constraints and others have not, what the first have is the update of   *)
(* what the others have.                                                   *)
(***************************************************************************)
Unpaired == \A r \in Rank : Holds[r] \ Attached[r] \subseteq Frozen

SameSets(r1, r2, s) == active[r1][s] = active[r2][s] /\ fset[r1][s] = fset[r2][s]

IsUpdateOf(r1, r2, s) ==
  active[r1][s] = MaskedActive(r2, s) /\ fset[r1][s] = ConstrainedFSet(r2, s)

Ahead(r1, r2) == pc[r1] = "reindex?" /\ pc[r2] = "update"

SharedSets ==
  \A r1, r2 \in Rank : \A s \in Holds[r1] \cap Holds[r2] :
    /\ Ahead(r1, r2) => IsUpdateOf(r1, r2, s)
    /\ ~Ahead(r1, r2) /\ ~Ahead(r2, r1) => SameSets(r1, r2, s)

LEMMA SharedSetsInit == Init => SharedSets
BY DEF Init, SharedSets, SameSets, Ahead

\* The same ice and the same constraints make the same of the same sets.
LEMMA SameUpdate ==
  ASSUME Unpaired, NEW r1 \in Rank, NEW r2 \in Rank, NEW s \in Holds[r1] \cap Holds[r2],
         SameSets(r1, r2, s)
  PROVE  MaskedActive(r1, s) = MaskedActive(r2, s) /\ ConstrainedFSet(r1, s) = ConstrainedFSet(r2, s)
<1>1. s \in Attached[r1] \ Frozen <=> s \in Attached[r2] \ Frozen
  BY DEF Unpaired
<1>2. MaskedActive(r1, s) = MaskedActive(r2, s)
  BY <1>1 DEF MaskedActive, SameSets
<1> QED BY <1>2 DEF ConstrainedFSet, MaskedFSet, SameSets

\* What rank q would make of its copy does not depend on the other ranks.
LEMMA UpdateOfOther ==
  ASSUME NEW q \in Rank, NEW s, UNCHANGED <<mask, relaxed>>,
         active'[q] = active[q], fset'[q] = fset[q]
  PROVE  MaskedActive(q, s)' = MaskedActive(q, s) /\ ConstrainedFSet(q, s)' = ConstrainedFSet(q, s)
<1>1. MaskedActive(q, s)' = MaskedActive(q, s)
  BY DEF MaskedActive
<1> QED BY <1>1 DEF ConstrainedFSet, MaskedFSet, AppliedDofs, RelaxedDofs

LEMMA SharedSetsUpdate ==
  ASSUME TypeInv, SamePhase, Unpaired, SharedSets, NEW r \in Rank, UpdateConstraints(r)
  PROVE  SharedSets'
<1>1. /\ pc[r] = "update" /\ pc'[r] = "reindex?" /\ UNCHANGED <<mask, relaxed>>
      /\ \A s \in Holds[r] : /\ active'[r][s] = MaskedActive(r, s)
                             /\ fset'[r][s] = ConstrainedFSet(r, s)
  BY DEF UpdateConstraints, Goto, envvars, TypeInv, NodeTypes, Copies
<1>2. \A q \in Rank \ {r} : pc'[q] = pc[q] /\ active'[q] = active[q] /\ fset'[q] = fset[q]
  BY LocalStepFrame DEF LocalStep
<1>3. \A q \in Rank : pc[q] \in {"update", "reindex?"}
  <2>1. \A q \in Rank : Stage(q) = "check"
    BY <1>1 DEF SamePhase, Stage
  <2> QED BY <2>1 DEF Stage
\* The pairs of which r is one.
<1>4. ASSUME NEW q \in Rank \ {r}, NEW s \in Holds[r] \cap Holds[q]
      PROVE  /\ Ahead(r, q)' => IsUpdateOf(r, q, s)'
             /\ ~Ahead(q, r)'
             /\ ~Ahead(r, q)' => SameSets(r, q, s)' /\ SameSets(q, r, s)'
  <2>1. CASE pc[q] = "update"
    <3>1. SameSets(r, q, s) /\ Ahead(r, q)'
      BY <1>1, <1>2, <2>1 DEF SharedSets, Ahead
    <3>2. MaskedActive(r, s) = MaskedActive(q, s) /\ ConstrainedFSet(r, s) = ConstrainedFSet(q, s)
      BY <3>1, SameUpdate
    <3>3. MaskedActive(q, s)' = MaskedActive(q, s) /\ ConstrainedFSet(q, s)' = ConstrainedFSet(q, s)
      BY <1>1, <1>2, UpdateOfOther
    <3> QED BY <1>1, <3>1, <3>2, <3>3 DEF IsUpdateOf, Ahead
  <2>2. CASE pc[q] = "reindex?"
    <3>1. IsUpdateOf(q, r, s)
      BY <1>1, <2>2 DEF SharedSets, Ahead
    <3>2. active'[q][s] = active'[r][s] /\ fset'[q][s] = fset'[r][s]
      BY <1>1, <1>2, <3>1 DEF IsUpdateOf
    <3> QED BY <1>1, <1>2, <2>2, <3>2 DEF SameSets, Ahead
  <2> QED BY <1>3, <2>1, <2>2
<1>5. ASSUME NEW q1 \in Rank \ {r}, NEW q2 \in Rank \ {r}, NEW s \in Holds[q1] \cap Holds[q2]
      PROVE  /\ Ahead(q1, q2)' => IsUpdateOf(q1, q2, s)'
             /\ ~Ahead(q1, q2)' /\ ~Ahead(q2, q1)' => SameSets(q1, q2, s)'
  <2>1. Ahead(q1, q2)' = Ahead(q1, q2) /\ Ahead(q2, q1)' = Ahead(q2, q1)
    BY <1>2 DEF Ahead
  <2>2. IsUpdateOf(q1, q2, s)' = IsUpdateOf(q1, q2, s)
    BY <1>1, <1>2, UpdateOfOther DEF IsUpdateOf
  <2>3. SameSets(q1, q2, s)' = SameSets(q1, q2, s)
    BY <1>2 DEF SameSets
  <2> QED BY <2>1, <2>2, <2>3 DEF SharedSets
<1>6. ASSUME NEW q1 \in Rank, NEW q2 \in Rank, NEW s \in Holds[q1] \cap Holds[q2]
      PROVE  /\ Ahead(q1, q2)' => IsUpdateOf(q1, q2, s)'
             /\ ~Ahead(q1, q2)' /\ ~Ahead(q2, q1)' => SameSets(q1, q2, s)'
  <2>1. CASE q1 = r /\ q2 = r
    BY <1>1, <2>1 DEF Ahead, SameSets
  <2>2. CASE q1 = r /\ q2 # r
    BY <1>4, <2>2
  <2>3. CASE q1 # r /\ q2 = r
    BY <1>4, <2>3
  <2>4. CASE q1 # r /\ q2 # r
    BY <1>5, <2>4
  <2> QED BY <2>1, <2>2, <2>3, <2>4
<1> QED BY <1>6 DEF SharedSets

LEMMA SharedSetsNext ==
  ASSUME TypeInv, SamePhase, Unpaired, SharedSets, [Next]_vars
  PROVE  SharedSets'
<1>1. ASSUME NEW r \in Rank, LocalStep(r), ~UpdateConstraints(r)
      PROVE  SharedSets'
  <2>1. UNCHANGED <<active, fset, mask, relaxed>>
    BY <1>1 DEF LocalStep, SetClone, DistributeDofs, OffsetDofs, UpdateCloneDofs, Solve, nodevars,
                envvars
  <2>2. pc[r] \notin {"update", "reindex?"} /\ pc'[r] \notin {"update", "reindex?"}
    BY <1>1 DEF LocalStep, SetClone, DistributeDofs, OffsetDofs, UpdateCloneDofs, Solve, Goto, TypeInv
  <2>3. \A q \in Rank \ {r} : pc'[q] = pc[q]
    BY <1>1, LocalStepFrame
  <2>4. \A q1, q2 \in Rank : Ahead(q1, q2)' = Ahead(q1, q2)
    BY <2>2, <2>3 DEF Ahead
  <2>5. \A q \in Rank : \A s \in Holds[q] :
          MaskedActive(q, s)' = MaskedActive(q, s) /\ ConstrainedFSet(q, s)' = ConstrainedFSet(q, s)
    BY <2>1, UpdateOfOther
  <2> QED BY <2>1, <2>4, <2>5 DEF SharedSets, SameSets, IsUpdateOf
<1>2. CASE CollectiveStep
  <2>1. UNCHANGED <<active, fset>>
    BY <1>2, CollectiveStepFrame
  <2>2. \A q1, q2 \in Rank : pc[q1] = pc[q2] /\ pc'[q1] = pc'[q2]
    <3>1. CASE RequiresDofReindexing
      BY <3>1 DEF RequiresDofReindexing, MustReindex
    <3>2. CASE AllreduceRanks \/ GatherCounts \/ MaxNumDofs \/ AllreduceTrueDofs \/ AssembleMask
      <4>1. PICK wait, to : Collective(wait, to)
        BY <3>2 DEF AllreduceRanks, GatherCounts, MaxNumDofs, AllreduceTrueDofs, AssembleMask
      <4> QED BY <4>1 DEF Collective
    <3> QED BY <1>2, <3>1, <3>2 DEF CollectiveStep
  <2>3. \A q1, q2 \in Rank : ~Ahead(q1, q2) /\ ~Ahead(q1, q2)'
    BY <2>2 DEF Ahead
  <2> QED BY <2>1, <2>3 DEF SharedSets, SameSets
<1>3. CASE UNCHANGED vars
  <2>1. UNCHANGED <<pc, active, fset, mask, relaxed>>
    BY <1>3 DEF vars
  <2>2. \A q \in Rank : \A s \in Holds[q] :
          MaskedActive(q, s)' = MaskedActive(q, s) /\ ConstrainedFSet(q, s)' = ConstrainedFSet(q, s)
    BY <2>1, UpdateOfOther
  <2> QED BY <2>1, <2>2 DEF SharedSets, SameSets, IsUpdateOf, Ahead
<1> QED BY <1>1, <1>2, <1>3, SharedSetsUpdate DEF Next

LEMMA SharedSetsInvariance == Spec => [](Unpaired => SharedSets)
<1>1. Init => (Unpaired => SharedSets)
  BY SharedSetsInit
<1>2. TypeInv /\ SamePhase /\ (Unpaired => SharedSets) /\ [Next]_vars => (Unpaired => SharedSets)'
  BY SharedSetsNext DEF Unpaired
<1> QED BY <1>1, <1>2, TypeInvariance, SamePhaseInvariance, PTL DEF Spec

-----------------------------------------------------------------------------
(***************************************************************************)
(* The lists of the copies. A set is finished on a rank when its clones    *)
(* have picked up the numbers of their masters; before that, the table     *)
(* that they read shows these numbers, also when the master has gone on to *)
(* the next set.                                                           *)
(***************************************************************************)
Picked(r, k) == \A s \in Holds[r] : doflist[r][k][s] = doflist[MasterRank(s)][k][s]

Finished(r, k) ==
  \/ InUse(r)
  \/ /\ Numbering(r)
     /\ \/ k = "f" /\ setenum[r] = "s"
        \/ k = "g" /\ setenum[r] \in {"f", "s"}

TableShown(r, k) ==
  \A s \in Holds[r] :
    /\ size[r][k][s] = size[MasterRank(s)][k][s]
    /\ \A j \in 0..(size[r][k][s] - 1) : alltruedofs[s][j] = doflist[MasterRank(s)][k][s][j]

RankPicked(r) ==
  /\ pc[r] = "update clones" => TableShown(r, setenum[r])
  /\ \A k \in SetEnum : Finished(r, k) => Picked(r, k)
  /\ Checking(r) => (\A k \in SetEnum : Picked(r, k)) \/ (\A q \in Rank : Fresh(q))

CopiesInv == \A r \in Rank : RankPicked(r)

\* All that the numbers of the copies rest on.
Ground ==
  /\ TypeInv /\ SamePhase /\ NumberingInv /\ SharedSets
  /\ \A r \in Rank : MastersKnown(r) /\ FlagsClear(r) /\ SizesCurrent(r)

LEMMA CopiesInit == Init => CopiesInv
BY DEF Init, CopiesInv, RankPicked, Finished, InUse, Numbering, Checking, Fresh

\* A step that leaves the lists, the sizes and the table, and finishes no set.
LEMMA ListsKept ==
  ASSUME NEW q \in Rank, RankPicked(q), UNCHANGED <<doflist, size, alltruedofs>>,
         \A k \in SetEnum : Finished(q, k)' => Finished(q, k),
         pc'[q] = "update clones" => pc[q] = "update clones" /\ setenum'[q] = setenum[q],
         Checking(q)' => /\ Checking(q)
                         /\ (\A p \in Rank : Fresh(p)) => (\A p \in Rank : Fresh(p)')
  PROVE  RankPicked(q)'
<1>1. \A k \in SetEnum : Picked(q, k)' = Picked(q, k)
  BY DEF Picked
<1>2. \A k : TableShown(q, k)' = TableShown(q, k)
  BY DEF TableShown
<1>3. pc'[q] = "update clones" => TableShown(q, setenum[q])' /\ setenum'[q] = setenum[q]
  BY <1>2 DEF RankPicked
<1>4. (pc[q] = "update clones" => TableShown(q, setenum[q]))'
  BY <1>3 DEF TableShown
<1> QED BY <1>1, <1>4 DEF RankPicked

LEMMA CopiesUpdateConstraints ==
  ASSUME Ground, CopiesInv, NEW r \in Rank, UpdateConstraints(r), NEW q \in Rank
  PROVE  RankPicked(q)'
<1>1. UNCHANGED <<setenum, doflist, size, alltruedofs>>
  BY DEF UpdateConstraints, commvars
<1>2. pc' = [pc EXCEPT ![r] = "reindex?"] /\ pc[r] = "update"
  BY DEF UpdateConstraints, Goto
<1>3. Checking(q) /\ Checking(q)'
  <2>1. Stage(q) = "check"
    BY <1>2 DEF Ground, SamePhase, Stage
  <2> QED BY <1>2, <2>1 DEF Stage, Checking, Ground, TypeInv
<1>4. ASSUME \A p \in Rank : Fresh(p)
      PROVE  \A p \in Rank : Fresh(p)'
  BY <1>4 DEF UpdateConstraints, Fresh, Ground, TypeInv, NodeTypes, Copies
<1>5. \A k \in SetEnum : ~ Finished(q, k)'
  BY <1>3 DEF Finished, InUse, Numbering, Checking
<1>6. pc'[q] # "update clones"
  BY <1>3 DEF Checking
<1> QED BY <1>1, <1>3, <1>4, <1>5, <1>6, ListsKept DEF CopiesInv

LEMMA CopiesSetClone ==
  ASSUME Ground, CopiesInv, NEW r \in Rank, SetClone(r), NEW q \in Rank
  PROVE  RankPicked(q)'
<1>1. /\ pc[r] = "clones" /\ pc' = [pc EXCEPT ![r] = "distribute"]
      /\ setenum' = [setenum EXCEPT ![r] = "g"] /\ UNCHANGED <<doflist, size, alltruedofs>>
  BY DEF SetClone, Goto, commvars
<1>2. CASE q = r
  BY <1>1, <1>2, ListsKept DEF CopiesInv, Finished, InUse, Numbering, Checking, Ground, TypeInv
<1>3. CASE q # r
  <2>1. pc'[q] = pc[q] /\ setenum'[q] = setenum[q]
    BY <1>3, LocalStepFrame DEF LocalStep, Ground
  <2>2. Stage(q) = "count"
    BY <1>1 DEF Ground, SamePhase, Stage
  <2>3. ~ Checking(q)'
    BY <2>1, <2>2 DEF Stage, Checking
  <2> QED BY <1>1, <2>1, <2>3, ListsKept DEF CopiesInv, Finished, InUse, Numbering
<1> QED BY <1>2, <1>3

LEMMA CopiesSolve ==
  ASSUME Ground, CopiesInv, NEW r \in Rank, Solve(r), NEW q \in Rank
  PROVE  RankPicked(q)'
<1>1. /\ pc[r] = "solve" /\ pc' = [pc EXCEPT ![r] = "mask"]
      /\ UNCHANGED <<setenum, doflist, size, alltruedofs>>
  BY DEF Solve, Goto, commvars
<1>2. Stage(q) = "use"
  BY <1>1 DEF Ground, SamePhase, Stage
<1>3. ~ Checking(q)'
  BY <1>1, <1>2 DEF Stage, Checking, Ground, TypeInv
<1>4. pc'[q] = pc[q] \/ (pc[q] = "solve" /\ pc'[q] = "mask")
  BY <1>1 DEF Ground, TypeInv
<1> QED BY <1>1, <1>3, <1>4, ListsKept DEF CopiesInv, Finished, InUse, Numbering

\* The table still shows the same where the lists of the masters and the sizes stay.
LEMMA TableKept ==
  ASSUME NEW q \in Rank, NEW l \in SetEnum, TableShown(q, l), alltruedofs' = alltruedofs,
         \A s \in Holds[q] :
           /\ size'[q][l][s] = size[q][l][s]
           /\ size'[MasterRank(s)][l][s] = size[MasterRank(s)][l][s]
           /\ doflist'[MasterRank(s)][l][s] = doflist[MasterRank(s)][l][s]
  PROVE  TableShown(q, l)'
<1> SUFFICES ASSUME NEW s \in Holds[q]
             PROVE  /\ size'[q][l][s] = size'[MasterRank(s)][l][s]
                    /\ \A j \in 0..(size'[q][l][s] - 1) :
                         alltruedofs'[s][j] = doflist'[MasterRank(s)][l][s][j]
  BY DEF TableShown
<1>1. /\ size[q][l][s] = size[MasterRank(s)][l][s]
      /\ \A j \in 0..(size[q][l][s] - 1) : alltruedofs[s][j] = doflist[MasterRank(s)][l][s][j]
  BY DEF TableShown
<1> QED BY <1>1

\* A rank that numbers or shifts a set that no rank has finished, and of which no
\* table is shown, disturbs nothing.
LEMMA CopiesOtherSet ==
  ASSUME Ground, NEW q \in Rank, RankPicked(q), NEW k \in SetEnum, setenum' = setenum,
         \A p \in Rank, l \in SetEnum : l # k => doflist'[p][l] = doflist[p][l] /\ size'[p][l] = size[p][l],
         alltruedofs' = alltruedofs, ~ Checking(q)',
         \A l \in SetEnum : Finished(q, l)' => l # k /\ Finished(q, l),
         pc'[q] = "update clones" => pc[q] = "update clones" /\ setenum[q] # k
  PROVE  RankPicked(q)'
<1>0. \A s \in Holds[q] : MasterRank(s) \in Rank
  BY MasterRankIsLowest, HoldsType DEF Ground
<1>1. ASSUME NEW l \in SetEnum, l # k
      PROVE  (Picked(q, l) => Picked(q, l)') /\ (TableShown(q, l) => TableShown(q, l)')
  <2>1. ASSUME NEW s \in Holds[q]
        PROVE  /\ doflist'[q][l][s] = doflist[q][l][s] /\ size'[q][l][s] = size[q][l][s]
               /\ doflist'[MasterRank(s)][l][s] = doflist[MasterRank(s)][l][s]
               /\ size'[MasterRank(s)][l][s] = size[MasterRank(s)][l][s]
    BY <1>0, <1>1
  <2>2. Picked(q, l) => Picked(q, l)'
    BY <2>1 DEF Picked
  <2>3. TableShown(q, l) => TableShown(q, l)'
    BY <2>1, TableKept
  <2> QED BY <2>2, <2>3
<1>2. setenum[q] \in SetEnum
  BY DEF Ground, TypeInv
<1>3. pc'[q] = "update clones" => TableShown(q, setenum[q])'
  BY <1>1, <1>2 DEF RankPicked
<1>4. (pc[q] = "update clones" => TableShown(q, setenum[q]))'
  BY <1>3 DEF TableShown
<1>5. \A l \in SetEnum : Finished(q, l)' => Picked(q, l)'
  BY <1>1 DEF RankPicked
<1> QED BY <1>4, <1>5 DEF RankPicked

LEMMA CopiesDistributeDofs ==
  ASSUME Ground, CopiesInv, NEW r \in Rank, DistributeDofs(r), NEW q \in Rank
  PROVE  RankPicked(q)'
<1> USE DEF Ground
<1>0. PICK k \in SetEnum : k = setenum[r]
  BY DEF TypeInv
<1>1. /\ pc[r] = "distribute" /\ pc' = [pc EXCEPT ![r] = "counts"]
      /\ setenum' = setenum /\ alltruedofs' = alltruedofs
  BY DEF DistributeDofs, Goto, commvars
<1>2. \A p \in Rank, l \in SetEnum : l # k =>
        doflist'[p][l] = doflist[p][l] /\ size'[p][l] = size[p][l]
  BY <1>0 DEF DistributeDofs, TypeInv, SizeTypes, ListTypes
<1>3. \/ pc[q] = "clones"
      \/ pc[q] \in {"distribute", "counts"} /\ setenum[q] = k
      \/ pc[q] = "update clones" /\ setenum[q] # "s" /\ k = NextSet(setenum[q])
  <2>1. Stage(q) = "count" /\ StageSet(q) = k
    BY <1>0, <1>1 DEF SamePhase, Stage, StageSet
  <2> QED BY <2>1 DEF Stage, StageSet
<1>4. pc'[q] = pc[q] \/ (pc[q] = "distribute" /\ pc'[q] = "counts")
  BY <1>1 DEF TypeInv
<1>5. ~ Checking(q)'
  BY <1>3, <1>4 DEF Checking
<1>6. setenum[q] \in SetEnum
  BY DEF TypeInv
<1>7. \A l \in SetEnum : Finished(q, l)' => l # k /\ Finished(q, l)
  BY <1>1, <1>3, <1>4, <1>6 DEF Finished, InUse, Numbering, NextSet, SetEnum
<1>8. pc'[q] = "update clones" => pc[q] = "update clones" /\ setenum[q] # k
  BY <1>3, <1>4 DEF NextSet
<1> QED BY <1>1, <1>2, <1>5, <1>7, <1>8, CopiesOtherSet DEF CopiesInv

LEMMA CopiesOffsetDofs ==
  ASSUME Ground, CopiesInv, NEW r \in Rank, OffsetDofs(r), NEW q \in Rank
  PROVE  RankPicked(q)'
<1> USE DEF Ground
<1>0. PICK k \in SetEnum : k = setenum[r]
  BY DEF TypeInv
<1>1. /\ pc[r] = "offset" /\ pc' = [pc EXCEPT ![r] = "maxdofs"]
      /\ setenum' = setenum /\ alltruedofs' = alltruedofs
  BY DEF OffsetDofs, Goto, commvars
<1>2. \A p \in Rank, l \in SetEnum : l # k =>
        doflist'[p][l] = doflist[p][l] /\ size'[p][l] = size[p][l]
  BY <1>0 DEF OffsetDofs, TypeInv, SizeTypes, ListTypes
<1>3. pc[q] \in {"offset", "maxdofs"} /\ setenum[q] = k
  <2>1. Stage(q) = "offset" /\ StageSet(q) = k
    BY <1>0, <1>1 DEF SamePhase, Stage, StageSet
  <2> QED BY <2>1 DEF Stage, StageSet
<1>4. pc'[q] \in {"offset", "maxdofs"}
  BY <1>1, <1>3 DEF TypeInv
<1>5. ~ Checking(q)'
  BY <1>4 DEF Checking
<1>6. \A l \in SetEnum : Finished(q, l)' => l # k /\ Finished(q, l)
  BY <1>1, <1>3, <1>4 DEF Finished, InUse, Numbering
<1> QED BY <1>1, <1>2, <1>4, <1>5, <1>6, CopiesOtherSet DEF CopiesInv

\* A rank whose clones pick up the table has finished the set, and leaves its masters
\* alone, which the other ranks read.
LEMMA CopiesUpdateCloneDofs ==
  ASSUME Ground, CopiesInv, NEW r \in Rank, UpdateCloneDofs(r), NEW q \in Rank
  PROVE  RankPicked(q)'
<1> USE DEF Ground
<1>0. PICK k \in SetEnum : k = setenum[r]
  BY DEF TypeInv
<1>1. /\ pc[r] = "update clones"
      /\ pc' = [pc EXCEPT ![r] = IF k = "s" THEN "solve" ELSE "distribute"]
      /\ setenum' = [setenum EXCEPT ![r] = NextSet(k)]
      /\ size' = size /\ alltruedofs' = alltruedofs
  BY <1>0 DEF UpdateCloneDofs, Goto, commvars
<1>2. \A s \in Holds[r] : doflist'[r][k][s] =
        IF clone[r][s] THEN [j \in 0..(size[r][k][s] - 1) |-> alltruedofs[s][j]]
        ELSE doflist[r][k][s]
  BY <1>0 DEF UpdateCloneDofs, TypeInv, ListTypes
<1>3. \A p \in Rank, l \in SetEnum : p # r \/ l # k => doflist'[p][l] = doflist[p][l]
  BY <1>0 DEF UpdateCloneDofs, TypeInv, ListTypes
<1>4. Settled(r)
  BY <1>1 DEF MastersKnown, Numbering
<1>5. ~ Checking(q)
  <2>1. Stage(r) \in {"count", "use"}
    BY <1>1 DEF Stage
  <2> QED BY <2>1 DEF SamePhase, Stage, Checking
<1>6. \A s \in Holds[q] : MasterRank(s) \in Rank /\ s \in Holds[MasterRank(s)]
  BY MasterRankIsLowest, HoldsType
\* The lists of the masters stay.
<1>7. ASSUME NEW s \in Holds[q], NEW l \in SetEnum
      PROVE  doflist'[MasterRank(s)][l][s] = doflist[MasterRank(s)][l][s]
  <2>1. CASE MasterRank(s) = r /\ l = k
    <3>1. s \in Holds[r] /\ ~clone[r][s]
      BY <1>4, <1>6, <2>1 DEF Settled
    <3> QED BY <1>2, <2>1, <3>1
  <2>2. CASE ~(MasterRank(s) = r /\ l = k)
    BY <1>3, <1>6, <2>2
  <2> QED BY <2>1, <2>2
<1>8. CASE q # r
  <2>1. pc'[q] = pc[q] /\ setenum'[q] = setenum[q] /\ setenum[q] \in SetEnum
    BY <1>8, LocalStepFrame DEF LocalStep, TypeInv
  <2>2. \A l \in SetEnum : Picked(q, l) => Picked(q, l)'
    BY <1>3, <1>7, <1>8 DEF Picked
  <2>3. \A l \in SetEnum : TableShown(q, l) => TableShown(q, l)'
    BY <1>1, <1>7, TableKept
  <2>4. pc'[q] = "update clones" => TableShown(q, setenum[q])'
    BY <2>1, <2>3 DEF CopiesInv, RankPicked
  <2>5. (pc[q] = "update clones" => TableShown(q, setenum[q]))'
    BY <2>1, <2>4 DEF TableShown
  <2>6. \A l \in SetEnum : Finished(q, l)' => Picked(q, l)'
    BY <2>1, <2>2 DEF CopiesInv, RankPicked, Finished, InUse, Numbering
  <2>7. ~ Checking(q)'
    BY <1>5, <2>1 DEF Checking
  <2> QED BY <2>5, <2>6, <2>7 DEF RankPicked
<1>9. CASE q = r
  <2>1. TableShown(r, k)
    BY <1>0, <1>1 DEF CopiesInv, RankPicked
  <2>2. Picked(r, k)'
    <3> SUFFICES ASSUME NEW s \in Holds[r]
                 PROVE  doflist'[r][k][s] = doflist'[MasterRank(s)][k][s]
      BY DEF Picked
    <3>1. CASE ~clone[r][s]
      BY <1>4, <3>1 DEF Settled
    <3>2. CASE clone[r][s]
      <4> DEFINE m == MasterRank(s)
      <4>1. m \in Rank /\ s \in Holds[m]
        BY <1>6, <1>9
      <4>2. doflist'[r][k][s] = [j \in 0..(size[r][k][s] - 1) |-> alltruedofs[s][j]]
        BY <1>2, <3>2
      <4>3. size[r][k][s] = size[m][k][s]
            /\ \A j \in 0..(size[r][k][s] - 1) : alltruedofs[s][j] = doflist[m][k][s][j]
        BY <2>1 DEF TableShown
      <4>4. doflist[m][k][s] \in [0..(size[m][k][s] - 1) -> Int]
        BY <4>1 DEF TypeInv, ListTypes
      <4>5. doflist'[m][k][s] = doflist[m][k][s]
        BY <1>7, <1>9
      <4> HIDE DEF m
      <4>6. doflist'[r][k][s] = doflist[m][k][s]
        BY <4>2, <4>3, <4>4
      <4> QED BY <4>5, <4>6 DEF m
    <3> QED BY <3>1, <3>2
  <2>3. ASSUME NEW l \in SetEnum, Finished(r, l)', l # k
        PROVE  Picked(r, l)'
    <3>1. pc'[r] \in {"solve", "distribute"} /\ (pc'[r] = "solve" => k = "s")
          /\ setenum'[r] = NextSet(k)
      BY <1>1 DEF TypeInv
    <3>2. Finished(r, l)
      BY <1>0, <1>1, <2>3, <3>1 DEF Finished, InUse, Numbering, NextSet, SetEnum
    <3>3. Picked(r, l)
      BY <3>2 DEF CopiesInv, RankPicked
    <3> QED BY <1>3, <1>7, <1>9, <2>3, <3>3 DEF Picked
  <2>4. pc'[r] \in {"solve", "distribute"}
    BY <1>1 DEF TypeInv
  <2> QED BY <1>9, <2>2, <2>3, <2>4 DEF RankPicked, Checking
<1> QED BY <1>8, <1>9

\* The reduction finds the number of the master: the other ranks show zeros.
LEMMA TableShowsMasters ==
  ASSUME TypeInv, NEW k \in SetEnum, \A q \in Rank : setenum[q] = k /\ Settled(q),
         NEW s \in Sid, Placed(MasterRank(s), k), NEW j \in 0..(size[MasterRank(s)][k][s] - 1)
  PROVE  MaxOf({ShowTrueDof(r, s, j) : r \in Rank}) = doflist[MasterRank(s)][k][s][j]
<1> DEFINE m == MasterRank(s)
<1> DEFINE x == doflist[m][k][s][j]
<1> DEFINE Shown == {ShowTrueDof(r, s, j) : r \in Rank}
<1>1. m \in Rank /\ s \in Holds[m] /\ ~clone[m][s]
  BY MasterRankIsLowest DEF Settled
<1>2. size[m][k][s] \in Nat /\ j \in Nat /\ j < size[m][k][s]
  <2>1. size[m][k][s] \in Nat
    BY <1>1 DEF TypeInv, SizeTypes
  <2> QED BY <2>1
<1>3. ShowTrueDof(m, s, j) = x
  BY <1>1, <1>2 DEF ShowTrueDof
<1>4. x \in Int /\ x >= 0
  <2>1. IsDof(m, k, s, j)
    BY <1>1 DEF IsDof, Master
  <2> DEFINE start == RunningSum(Totals(k), m)
  <2> DEFINE before == RunningSum(OwnSizes(m, k), s)
  <2>2. start \in Nat /\ before \in Nat /\ j \in Nat /\ x = start + before + j
    BY <1>1, <2>1, DofPosition
  <2> HIDE DEF start, before, x
  <2> QED BY <2>2
<1>5. ASSUME NEW r \in Rank, r # m
      PROVE  ShowTrueDof(r, s, j) = 0
  BY <1>5 DEF Settled, ShowTrueDof
<1>6. IsFiniteSet(Shown)
  <2> DEFINE f == [r \in Rank |-> ShowTrueDof(r, s, j)]
  <2>1. IsFiniteSet({f[r] : r \in Rank})
    <3> HIDE DEF f
    <3> QED BY RankFinite, FiniteImage
  <2>2. {f[r] : r \in Rank} = Shown
    OBVIOUS
  <2> HIDE DEF f, Shown
  <2> QED BY <2>1, <2>2
<1>7. x \in Shown
  BY <1>1, <1>3
<1>8. \A y \in Shown : y = x \/ y = 0
  BY <1>3, <1>5
<1> HIDE DEF m, x, Shown
<1>9. Shown \in SUBSET Int
  BY <1>4, <1>8
<1>10. MaxOf(Shown) \in Shown /\ x <= MaxOf(Shown)
  BY <1>6, <1>7, <1>9, MaxOfFinite
<1>11. MaxOf(Shown) = x
  BY <1>4, <1>8, <1>10
<1> QED BY <1>11 DEF Shown, x, m

\* All the copies of a node, clones included, are as long as its master.
LEMMA CopiesHaveSameSize ==
  ASSUME Ground, NEW r1 \in Rank, NEW r2 \in Rank, NEW s \in Holds[r1] \cap Holds[r2],
         NEW k \in SetEnum, Counted(r1, k), Counted(r2, k)
  PROVE  size[r1][k][s] = size[r2][k][s]
<1>1. Sized(r1, k, s) /\ Sized(r2, k, s)
  BY DEF Ground, SizesCurrent
<1>2. SameSets(r1, r2, s)
  <2>1. pc[r1] # "update" /\ pc[r2] # "update"
    BY DEF Counted, InUse, Numbering
  <2> QED BY <2>1 DEF Ground, SharedSets, Ahead
<1> QED BY <1>1, <1>2 DEF Sized, InitSet, SameSets

LEMMA CopiesAllreduceTrueDofs ==
  ASSUME Ground, AllreduceTrueDofs, NEW q \in Rank
  PROVE  TableShown(q, setenum[q])'
<1> USE DEF Ground
<1>1. PICK k \in SetEnum : k = setenum[q]
  BY DEF TypeInv
<1>2. \A p \in Rank : pc[p] = "truedofs" /\ setenum[p] = k
  BY <1>1 DEF AllreduceTrueDofs, Collective, SamePhase, StageSet
<1>3. UNCHANGED <<setenum, size, doflist>>
  BY DEF AllreduceTrueDofs
<1>4. \A p \in Rank : Settled(p) /\ Counted(p, k) /\ Placed(p, k)
  BY <1>2 DEF MastersKnown, Counted, Numbering, NumberingInv, RankNumbered, Done
<1>5. ASSUME NEW s \in Holds[q], NEW j \in 0..(size[q][k][s] - 1)
      PROVE  alltruedofs'[s][j] = doflist[MasterRank(s)][k][s][j]
  <2>1. s \in Sid /\ MasterRank(s) \in Rank /\ s \in Holds[MasterRank(s)]
    BY HoldsType, MasterRankIsLowest
  <2>2. size[q][k][s] = size[MasterRank(s)][k][s]
    BY <1>4, <2>1, CopiesHaveSameSize
  <2>3. j \in 0..(maxdofspernode - 1)
    <3>1. size[q][k][s] <= maxdofspernode
      BY <1>2 DEF TypeInv, TableWide
    <3>2. size[q][k][s] \in Nat /\ maxdofspernode \in Nat
      BY DEF TypeInv, SizeTypes, CountTypes
    <3>3. 0..(size[q][k][s] - 1) \subseteq 0..(maxdofspernode - 1)
      BY <3>1, <3>2, IntervalGrows
    <3> QED BY <3>3
  <2>4. alltruedofs'[s][j] = MaxOf({ShowTrueDof(r, s, j) : r \in Rank})
    BY <2>1, <2>3 DEF AllreduceTrueDofs
  <2> QED BY <1>2, <1>4, <2>1, <2>2, <2>4, TableShowsMasters
<1>6. \A s \in Holds[q] : size[q][k][s] = size[MasterRank(s)][k][s]
  <2> SUFFICES ASSUME NEW s \in Holds[q] PROVE size[q][k][s] = size[MasterRank(s)][k][s]
    OBVIOUS
  <2>1. MasterRank(s) \in Rank /\ s \in Holds[MasterRank(s)]
    BY HoldsType, MasterRankIsLowest
  <2> QED BY <1>4, <2>1, CopiesHaveSameSize
<1>7. setenum'[q] = k /\ TableShown(q, k)'
  <2>1. TableShown(q, k)'
    BY <1>3, <1>5, <1>6 DEF TableShown
  <2> QED BY <1>1, <1>3, <2>1
<1> QED BY <1>7 DEF TableShown

LEMMA CopiesCollective ==
  ASSUME Ground, CopiesInv, CollectiveStep, NEW q \in Rank
  PROVE  RankPicked(q)'
<1>0. UNCHANGED <<setenum, doflist, size, indexingupdate>>
  BY CollectiveStepFrame
<1>1. \A k \in SetEnum : Picked(q, k)' = Picked(q, k)
  BY <1>0 DEF Picked
<1>2. RankPicked(q)
  BY DEF CopiesInv
<1>3. CASE RequiresDofReindexing
  <2>1. Checking(q) /\ pc'[q] = IF MustReindex(q) THEN "ranks" ELSE "solve"
    BY <1>3 DEF RequiresDofReindexing, Checking
  <2>2. CASE MustReindex(q)
    BY <2>1, <2>2 DEF RankPicked, Checking, Finished, InUse, Numbering
  <2>3. CASE ~ MustReindex(q)
    <3>1. 0 \in Sid
      BY SizeAssumption DEF Sid
    <3>2. PICK p \in Rank : 0 \in Holds[p]
      BY <3>1, PartitionAssumption
    <3>3. ~ Fresh(p)
      BY <2>3, <3>2 DEF MustReindex, Fresh
    <3>4. \A l \in SetEnum : Picked(q, l)
      BY <1>2, <2>1, <3>3 DEF RankPicked
    <3> QED BY <1>1, <2>1, <2>3, <3>4 DEF RankPicked, Checking
  <2> QED BY <2>2, <2>3
<1>4. ASSUME NEW to \in {"clones", "offset", "truedofs", "update clones"}, pc'[q] = to,
             pc[q] \in {"ranks", "counts", "maxdofs", "truedofs"}, pc[q] = "ranks" => to = "clones",
             to = "update clones" => TableShown(q, setenum[q])'
      PROVE  RankPicked(q)'
  <2>1. \A k \in SetEnum : Finished(q, k)' => Finished(q, k)
    BY <1>0, <1>4 DEF Finished, InUse, Numbering
  <2>2. (pc[q] = "update clones" => TableShown(q, setenum[q]))'
    BY <1>4 DEF TableShown
  <2> QED BY <1>1, <1>2, <1>4, <2>1, <2>2 DEF RankPicked, Checking
<1>5. CASE AllreduceRanks
  BY <1>4, <1>5 DEF AllreduceRanks, Collective
<1>6. CASE GatherCounts
  BY <1>4, <1>6 DEF GatherCounts, Collective
<1>7. CASE MaxNumDofs
  BY <1>4, <1>7 DEF MaxNumDofs, Collective
<1>8. CASE AllreduceTrueDofs
  <2>1. pc[q] = "truedofs" /\ pc'[q] = "update clones"
    BY <1>8 DEF AllreduceTrueDofs, Collective
  <2> QED BY <1>4, <1>8, <2>1, CopiesAllreduceTrueDofs
<1>9. CASE AssembleMask
  <2>1. pc[q] = "mask" /\ pc'[q] = "update"
    BY <1>9 DEF AssembleMask, Collective
  <2>2. \A l \in SetEnum : Picked(q, l)
    BY <1>2, <2>1 DEF RankPicked, Finished, InUse
  <2> QED BY <1>1, <2>1, <2>2 DEF RankPicked, Finished, InUse, Numbering
<1> QED BY <1>3, <1>5, <1>6, <1>7, <1>8, <1>9 DEF CollectiveStep

LEMMA CopiesNext ==
  ASSUME Ground, CopiesInv, [Next]_vars
  PROVE  CopiesInv'
<1> SUFFICES ASSUME NEW q \in Rank PROVE RankPicked(q)'
  BY DEF CopiesInv
<1>1. CASE \E r \in Rank : LocalStep(r)
  <2>1. PICK r \in Rank : LocalStep(r)
    BY <1>1
  <2> QED BY <2>1, CopiesUpdateConstraints, CopiesSetClone, CopiesDistributeDofs,
             CopiesOffsetDofs, CopiesUpdateCloneDofs, CopiesSolve DEF LocalStep
<1>2. CASE CollectiveStep
  BY <1>2, CopiesCollective
<1>3. CASE UNCHANGED vars
  <2>1. UNCHANGED <<pc, setenum, indexingupdate, doflist, size, alltruedofs>>
    BY <1>3 DEF vars
  <2> QED BY <2>1, ListsKept DEF CopiesInv, Finished, InUse, Numbering, Checking, Fresh
<1> QED BY <1>1, <1>2, <1>3 DEF Next

LEMMA CopiesInvariance == Spec => [](Unpaired => Ground /\ CopiesInv)
<1> DEFINE Steady == /\ TypeInv /\ SamePhase /\ NumberingInv /\ (Unpaired => SharedSets)
                     /\ (\A r \in Rank : MastersKnown(r) /\ FlagsClear(r))
                     /\ (\A r \in Rank : SizesCurrent(r))
<1>1. Spec => []Steady
  BY TypeInvariance, SamePhaseInvariance, NumberingInvariance, SharedSetsInvariance,
     MastersKnownInvariance, SizesCurrentInvariance, PTL
<1>2. Steady => (Unpaired => Ground)
  BY DEF Ground
<1>3. Init => (Unpaired => CopiesInv)
  BY CopiesInit
<1>4. Steady /\ (Unpaired => CopiesInv) /\ [Next]_vars => (Unpaired => CopiesInv)'
  BY <1>2, CopiesNext DEF Unpaired
<1> HIDE DEF Steady
<1> QED BY <1>1, <1>2, <1>3, <1>4, PTL DEF Spec

\* All the copies of a node have the same sizes and the same numbers in every set when
\* the lists are in use, whatever the partition, the ice and the constraints, unless a
\* pairing has brought a copy to a rank without an element that visits it.
THEOREM CopiesHaveSameNumbers == Spec => [](Unpaired => ClonesAgree)
<1>1. Ground /\ CopiesInv => ClonesAgree
  <2> SUFFICES ASSUME Ground, CopiesInv, NEW r1 \in Rank, NEW r2 \in Rank,
                      NEW s \in Holds[r1] \cap Holds[r2], NEW k \in SetEnum, InUse(r1), InUse(r2)
               PROVE  size[r1][k][s] = size[r2][k][s] /\ doflist[r1][k][s] = doflist[r2][k][s]
    BY DEF ClonesAgree
  <2>1. Counted(r1, k) /\ Counted(r2, k)
    BY DEF Counted
  <2>2. Picked(r1, k) /\ Picked(r2, k)
    BY DEF CopiesInv, RankPicked, Finished
  <2> QED BY <2>1, <2>2, CopiesHaveSameSize DEF Picked
<1> QED BY <1>1, CopiesInvariance, PTL

-----------------------------------------------------------------------------
(***************************************************************************)
(* The values of the constraints do not disturb the numbering: a behaviour *)
(* of NodalConstraints is one of NodesDofx, of which every theorem above   *)
(* holds.                                                                  *)
(***************************************************************************)
\* A step of a rank, or a collective, is one of the renumbering, and a reset of the
\* dynamic constraints is none of it: they read numbers and change values only.
LEMMA StepIsOfNumbering ==
  ASSUME [ValuedNext]_allvars
  PROVE  [Next]_vars
<1>1. CASE ResetBoundaryConditions
  BY <1>1 DEF ResetBoundaryConditions
<1>2. CASE NextTime
  BY <1>2 DEF NextTime, Next, CollectiveStep
<1>3. CASE RequiresDofReindexing \/ AllreduceRanks \/ GatherCounts \/ MaxNumDofs \/ AllreduceTrueDofs
  BY <1>3 DEF Next, CollectiveStep
<1>4. ASSUME NEW r \in Rank, ValuedStep(r)
      PROVE  [Next]_vars
  <2>1. LocalStep(r)
    BY <1>4 DEF ValuedStep, ApplyConstraints, LocalStep
  <2> QED BY <2>1 DEF Next
<1>5. CASE UNCHANGED allvars
  BY <1>5 DEF allvars
<1> QED BY <1>1, <1>2, <1>3, <1>4, <1>5 DEF ValuedNext, ValuedCollective

\* The model with values implements the renumbering alone (UpdateConstraintsx and
\* NodesDofx do the same whatever the values of the constraints are).
THEOREM ValuesKeepNumbering == ValuedSpec => Spec
<1>1. ValuedInit => Init
  BY DEF ValuedInit
<1>2. [ValuedNext]_allvars => [Next]_vars
  BY StepIsOfNumbering
<1> QED BY <1>1, <1>2, PTL DEF ValuedSpec, Spec

\* Whatever the constraints, a row of the system that is merged and reduced belongs
\* to one dof of one node.
THEOREM ValuedRowsHaveOneOwner == ValuedSpec => []RowsHaveOneOwner
BY ValuesKeepNumbering, EveryRowHasOneDof, PTL
-----------------------------------------------------------------------------
(***************************************************************************)
(* The place of a dof in the list of a set counts the dofs of the set      *)
(* below it: it takes every place of the list, and each of them once.      *)
(***************************************************************************)
LEMMA PositionFits ==
  ASSUME NEW S \in SUBSET Nat, IsFiniteSet(S), NEW d \in S
  PROVE  Position(S, d) \in 0..(Cardinality(S) - 1)
<1> DEFINE Below == {e \in S : e < d}
<1>1. Below \subseteq S /\ d \in S \ Below
  OBVIOUS
<1>2. /\ Cardinality(Below) <= Cardinality(S)
      /\ Cardinality(Below) = Cardinality(S) => Below = S
      /\ Cardinality(Below) \in Nat /\ Cardinality(S) \in Nat
  <2> HIDE DEF Below
  <2> QED BY <1>1, FS_Subset, FS_CardinalityType
<1>3. Cardinality(Below) # Cardinality(S)
  BY <1>1, <1>2
<1>4. Position(S, d) = Cardinality(Below)
  BY DEF Position
<1> HIDE DEF Below
<1> QED BY <1>2, <1>3, <1>4

LEMMA PositionGrows ==
  ASSUME NEW S \in SUBSET Nat, IsFiniteSet(S), NEW d \in S, NEW e \in S, d < e
  PROVE  Position(S, d) < Position(S, e)
<1> DEFINE B == {x \in S : x < d}
<1> DEFINE C == {x \in S : x < e}
<1>1. B \subseteq C /\ d \in C \ B /\ C \subseteq S
  <2>1. \A x \in S : x \in Nat
    OBVIOUS
  <2>2. \A x \in S : x < d => x < e
    BY <2>1
  <2>3. ~ (d < d)
    BY <2>1
  <2> QED BY <2>2, <2>3
<1>2. IsFiniteSet(C)
  <2> HIDE DEF B, C
  <2> QED BY <1>1, FS_Subset
<1>3. /\ Cardinality(B) <= Cardinality(C)
      /\ Cardinality(B) = Cardinality(C) => B = C
      /\ Cardinality(B) \in Nat /\ Cardinality(C) \in Nat
  <2> HIDE DEF B, C
  <2> QED BY <1>1, <1>2, FS_Subset, FS_CardinalityType
<1>4. Cardinality(B) # Cardinality(C)
  BY <1>1, <1>3
<1>5. Position(S, d) = Cardinality(B) /\ Position(S, e) = Cardinality(C)
  BY DEF Position
<1> HIDE DEF B, C
<1> QED BY <1>3, <1>4, <1>5

LEMMA PositionIsBijective ==
  ASSUME NEW S \in SUBSET Nat, IsFiniteSet(S)
  PROVE  /\ \A d, e \in S : Position(S, d) = Position(S, e) => d = e
         /\ \A i \in 0..(Cardinality(S) - 1) : \E d \in S : Position(S, d) = i
<1>1. \A d, e \in S : Position(S, d) = Position(S, e) => d = e
  <2> SUFFICES ASSUME NEW d \in S, NEW e \in S, d # e PROVE Position(S, d) # Position(S, e)
    OBVIOUS
  <2>1. Position(S, d) \in Nat /\ Position(S, e) \in Nat
    BY PositionFits
  <2>2. d < e \/ e < d
    OBVIOUS
  <2>3. d < e => Position(S, d) < Position(S, e)
    BY PositionGrows
  <2>4. e < d => Position(S, e) < Position(S, d)
    BY PositionGrows
  <2> QED BY <2>1, <2>2, <2>3, <2>4
<1> DEFINE f == [d \in S |-> Position(S, d)]
<1> DEFINE T == {f[d] : d \in S}
<1>2. T \subseteq 0..(Cardinality(S) - 1)
  BY PositionFits
<1>3. f \in Surjection(S, T) /\ f \in Injection(S, T)
  <2>1. f \in [S -> T] /\ \A i \in T : \E d \in S : f[d] = i
    OBVIOUS
  <2>2. \A d, e \in S : f[d] = f[e] => d = e
    BY <1>1
  <2> HIDE DEF f, T
  <2>3. f \in Injection(S, T)
    BY <2>1, <2>2 DEF Injection, IsInjective
  <2>4. f \in Surjection(S, T)
    BY <2>1 DEF Surjection
  <2> QED BY <2>3, <2>4
<1>4. IsFiniteSet(T) /\ Cardinality(T) = Cardinality(S) /\ Cardinality(S) \in Nat
  <2> HIDE DEF f, T
  <2> QED BY <1>3, FS_Surjection, FS_CardinalityType
<1>5. IsFiniteSet(0..(Cardinality(S) - 1)) /\ Cardinality(0..(Cardinality(S) - 1)) = Cardinality(S)
  <2>1. PICK n \in Nat : n = Cardinality(S)
    BY <1>4
  <2>2. IsFiniteSet(0..(n - 1)) /\ Cardinality(0..(n - 1)) = n
    BY FS_Interval
  <2> QED BY <2>1, <2>2
<1>6. T = 0..(Cardinality(S) - 1)
  <2> HIDE DEF T
  <2> QED BY <1>2, <1>4, <1>5, FS_Subset
<1>7. \A i \in 0..(Cardinality(S) - 1) : \E d \in S : f[d] = i
  <2>1. \A i \in T : \E d \in S : f[d] = i
    OBVIOUS
  <2> HIDE DEF T, f
  <2> QED BY <1>6, <2>1
<1> QED BY <1>1, <1>7

-----------------------------------------------------------------------------
(***************************************************************************)
(* The rows of a set: all the copies of a dof have the same row, two dofs  *)
(* have two, and a vector over the set has these rows and no others.       *)
(***************************************************************************)
RowsAreSound(k) ==
  /\ NumberOfDofs(k) \in Nat
  /\ \A r \in Rank : \A s \in Holds[r] : \A d \in DofSet(r, k, s) :
       Row(r, k, s, d) \in 0..(NumberOfDofs(k) - 1)
  /\ \A r, q \in Rank : \A s \in Holds[r], t \in Holds[q] : \A d \in DofSet(r, k, s), e \in DofSet(q, k, t) :
       Row(r, k, s, d) = Row(q, k, t, e) <=> s = t /\ d = e
  /\ \A row \in 0..(NumberOfDofs(k) - 1) :
       \E r \in Rank : \E s \in Holds[r] : \E d \in DofSet(r, k, s) : Row(r, k, s, d) = row

LEMMA DofSets ==
  ASSUME TypeInv, NEW r \in Rank, NEW s \in Holds[r], NEW k \in SetEnum
  PROVE  /\ s \in Sid
         /\ DofSet(r, k, s) \subseteq Dof(s) /\ DofSet(r, k, s) \in SUBSET Nat
         /\ IsFiniteSet(DofSet(r, k, s))
         /\ Cardinality(DofSet(r, k, s)) = InitSet(r, k, s)
<1>1. s \in Sid /\ GSize[s] \in Nat
  BY HoldsType, ConstraintAssumption
<1>2. Dof(s) \in SUBSET Nat
  BY <1>1 DEF Dof
<1>3. fset[r][s] \subseteq Dof(s)
  BY DEF TypeInv, NodeTypes
<1>4. DofSet(r, k, s) \subseteq Dof(s)
  BY <1>3 DEF DofSet, SetEnum
<1>5. IsFiniteSet(DofSet(r, k, s))
  BY <1>1, <1>4, DofSubsetSize
<1>6. Cardinality(Dof(s)) = GSize[s]
  <2>1. PICK n \in Nat : n = GSize[s]
    BY <1>1
  <2>2. Cardinality(0..(n - 1)) = n
    BY FS_Interval
  <2> QED BY <2>1, <2>2 DEF Dof
<1>7. Cardinality(DofSet(r, k, s)) = InitSet(r, k, s)
  BY <1>6 DEF DofSet, InitSet, SetEnum
<1> QED BY <1>1, <1>2, <1>4, <1>5, <1>7

LEMMA NumberIsTotal ==
  ASSUME NEW k \in SetEnum
  PROVE  NumberOfDofs(k) = RunningSum(Totals(k), NumProcs)
<1>1. ASSUME NEW r \in Rank
      PROVE  NumberOfDofsLocal(r, k) = RunningSum(OwnSizes(r, k), NumNodes)
  <2>1. [s \in Sid |-> IF Master(r, s) THEN size[r][k][s] ELSE 0] = OwnSizes(r, k)
    BY DEF OwnSizes, Own, Master
  <2> QED BY <2>1 DEF NumberOfDofsLocal
<1>2. [r \in Rank |-> NumberOfDofsLocal(r, k)] = Totals(k)
  BY <1>1 DEF Totals
<1> QED BY <1>2 DEF NumberOfDofs

\* When all the lists are in use: the row of a dof of a copy, in the list of the master.
LEMMA RowOfMaster ==
  ASSUME Ground, CopiesInv, \A r \in Rank : InUse(r),
         NEW k \in SetEnum, NEW r \in Rank, NEW s \in Holds[r], NEW d \in DofSet(r, k, s)
  PROVE  LET m == MasterRank(s)
             i == Position(DofSet(r, k, s), d)
         IN  /\ m \in Rank /\ s \in Holds[m] /\ Master(m, s)
             /\ i \in 0..(size[m][k][s] - 1)
             /\ Row(r, k, s, d) = doflist[m][k][s][i]
             /\ doflist[m][k][s][i] \in Int
<1> DEFINE m == MasterRank(s)
<1> DEFINE i == Position(DofSet(r, k, s), d)
<1>1. TypeInv /\ s \in Sid
  BY HoldsType DEF Ground
<1>2. m \in Rank /\ s \in Holds[m]
  BY <1>1, MasterRankIsLowest
<1>3. Master(m, s)
  BY <1>2 DEF Ground, MastersKnown, Settled, Master
<1>4. Counted(r, k) /\ Counted(m, k)
  BY <1>2 DEF Counted
<1>5. size[r][k][s] = InitSet(r, k, s) /\ size[r][k][s] = size[m][k][s]
  <2>1. size[r][k][s] = InitSet(r, k, s)
    BY <1>4 DEF Ground, SizesCurrent, Sized
  <2> QED BY <1>2, <1>4, <2>1, CopiesHaveSameSize
<1>6. i \in 0..(InitSet(r, k, s) - 1)
  BY <1>1, DofSets, PositionFits
<1>7. doflist[r][k][s] = doflist[m][k][s]
  BY DEF CopiesInv, RankPicked, Finished, Picked
<1>8. doflist[m][k][s] \in [0..(size[m][k][s] - 1) -> Int]
  BY <1>1, <1>2 DEF TypeInv, ListTypes
<1>9. i \in DOMAIN doflist[r][k][s]
  BY <1>5, <1>6, <1>7, <1>8
<1>10. Row(r, k, s, d) = doflist[r][k][s][i]
  BY <1>9 DEF Row
<1> HIDE DEF i, m
<1>11. doflist[m][k][s][i] \in Int
  BY <1>5, <1>6, <1>8
<1> QED BY <1>2, <1>3, <1>5, <1>6, <1>7, <1>10, <1>11 DEF i, m

LEMMA SameDofSets ==
  ASSUME Ground, \A r \in Rank : InUse(r),
         NEW k \in SetEnum, NEW r \in Rank, NEW q \in Rank, NEW s \in Holds[r] \cap Holds[q]
  PROVE  DofSet(r, k, s) = DofSet(q, k, s)
<1>1. fset[r][s] = fset[q][s]
  BY DEF Ground, SharedSets, SameSets, Ahead, InUse
<1>2. CASE k = "g"
  <2>1. DofSet(r, k, s) = Dof(s) /\ DofSet(q, k, s) = Dof(s)
    BY <1>2 DEF DofSet
  <2> QED BY <2>1
<1>3. CASE k = "f"
  <2>1. DofSet(r, k, s) = fset[r][s] /\ DofSet(q, k, s) = fset[q][s]
    BY <1>3 DEF DofSet
  <2> QED BY <1>1, <2>1
<1>4. CASE k = "s"
  <2>1. DofSet(r, k, s) = Dof(s) \ fset[r][s] /\ DofSet(q, k, s) = Dof(s) \ fset[q][s]
    BY <1>4 DEF DofSet
  <2> QED BY <1>1, <2>1
<1> QED BY <1>2, <1>3, <1>4 DEF SetEnum

LEMMA RowsSound ==
  ASSUME Ground, CopiesInv, \A r \in Rank : InUse(r), NEW k \in SetEnum
  PROVE  RowsAreSound(k)
<1>1. TypeInv /\ \A r \in Rank : Placed(r, k)
  BY InUsePlaced DEF Ground
<1>2. NumberOfDofs(k) = RunningSum(Totals(k), NumProcs) /\ NumberOfDofs(k) \in Nat
  BY <1>1, NumberIsTotal, TotalsType, SizeAssumption
<1>3. ASSUME NEW r \in Rank, NEW s \in Holds[r], NEW d \in DofSet(r, k, s)
      PROVE  Row(r, k, s, d) \in 0..(NumberOfDofs(k) - 1)
  <2>1. PICK m \in Rank : /\ s \in Holds[m] /\ Master(m, s)
                          /\ \E i \in 0..(size[m][k][s] - 1) : Row(r, k, s, d) = doflist[m][k][s][i]
    BY RowOfMaster
  <2>2. Row(r, k, s, d) \in UsedDofs(k)
    BY <2>1 DEF UsedDofs
  <2> QED BY <1>1, <1>2, <2>2, UsedNumber
<1>4. ASSUME NEW r \in Rank, NEW q \in Rank, NEW s \in Holds[r], NEW t \in Holds[q],
             NEW d \in DofSet(r, k, s), NEW e \in DofSet(q, k, t)
      PROVE  Row(r, k, s, d) = Row(q, k, t, e) <=> s = t /\ d = e
  <2> DEFINE i == Position(DofSet(r, k, s), d)
  <2> DEFINE j == Position(DofSet(q, k, t), e)
  <2>1. /\ MasterRank(s) \in Rank /\ s \in Holds[MasterRank(s)] /\ Master(MasterRank(s), s)
        /\ i \in 0..(size[MasterRank(s)][k][s] - 1)
        /\ Row(r, k, s, d) = doflist[MasterRank(s)][k][s][i]
    BY RowOfMaster
  <2>2. /\ MasterRank(t) \in Rank /\ t \in Holds[MasterRank(t)] /\ Master(MasterRank(t), t)
        /\ j \in 0..(size[MasterRank(t)][k][t] - 1)
        /\ Row(q, k, t, e) = doflist[MasterRank(t)][k][t][j]
    BY RowOfMaster
  <2>3. ASSUME s = t, d = e
        PROVE  Row(r, k, s, d) = Row(q, k, t, e)
    <3>1. DofSet(r, k, s) = DofSet(q, k, t)
      BY <2>3, SameDofSets
    <3> QED BY <2>1, <2>2, <2>3, <3>1
  <2>4. ASSUME Row(r, k, s, d) = Row(q, k, t, e)
        PROVE  s = t /\ d = e
    <3>1. UniqueDofs
      BY PlacedAreUnique DEF Ground
    <3>2. doflist[MasterRank(s)][k][s][i] = doflist[MasterRank(t)][k][t][j]
      BY <2>1, <2>2, <2>4
    <3>3. s = t /\ i = j
      <4> HIDE DEF i, j
      <4> QED BY <2>1, <2>2, <3>1, <3>2 DEF UniqueDofs
    <3>4. DofSet(r, k, s) = DofSet(q, k, s)
      BY <3>3, SameDofSets
    <3>5. Position(DofSet(r, k, s), d) = Position(DofSet(r, k, s), e) /\ e \in DofSet(r, k, s)
      BY <3>3, <3>4
    <3>6. d = e
      BY <1>1, <3>5, DofSets, PositionIsBijective
    <3> QED BY <3>3, <3>6
  <2> QED BY <2>3, <2>4
<1>5. ASSUME NEW row \in 0..(NumberOfDofs(k) - 1)
      PROVE  \E r \in Rank : \E s \in Holds[r] : \E d \in DofSet(r, k, s) : Row(r, k, s, d) = row
  <2>1. row \in Nat /\ row < RunningSum(Totals(k), NumProcs)
    BY <1>2
  <2>2. row \in UsedDofs(k)
    BY <1>1, <2>1, NumberUsed
  <2>3. PICK r \in Rank : \E s \in Holds[r] : Master(r, s) /\
          \E j \in 0..(size[r][k][s] - 1) : row = doflist[r][k][s][j]
    BY <2>2 DEF UsedDofs
  <2>4. PICK s \in Holds[r] : Master(r, s) /\
          \E j \in 0..(size[r][k][s] - 1) : row = doflist[r][k][s][j]
    BY <2>3
  <2>5. PICK j \in 0..(size[r][k][s] - 1) : row = doflist[r][k][s][j]
    BY <2>4
  <2>6. size[r][k][s] = Cardinality(DofSet(r, k, s))
    <3>1. Counted(r, k)
      BY DEF Counted
    <3>2. size[r][k][s] = InitSet(r, k, s)
      BY <3>1 DEF Ground, SizesCurrent, Sized
    <3> QED BY <1>1, <3>2, DofSets
  <2>7. PICK d \in DofSet(r, k, s) : Position(DofSet(r, k, s), d) = j
    BY <1>1, <2>6, DofSets, PositionIsBijective
  <2>8. DOMAIN doflist[r][k][s] = 0..(size[r][k][s] - 1)
    BY <1>1 DEF TypeInv, ListTypes
  <2>9. Row(r, k, s, d) = row
    BY <2>5, <2>7, <2>8 DEF Row
  <2> QED BY <2>9
<1> QED BY <1>2, <1>3, <1>4, <1>5 DEF RowsAreSound

-----------------------------------------------------------------------------
(***************************************************************************)
(* A vector that is assembled from copies that put the same value for the  *)
(* same dof has this value at the row of the dof, whichever rank comes     *)
(* last; a row for which nobody puts a value keeps its own.                *)
(***************************************************************************)
PutOf(values, k, j, r, s, d) == [row |-> Row(r, j, s, d), node |-> s, value |-> values[r][s][d]]

LEMMA PutsAre ==
  ASSUME NEW values, NEW k, NEW j, NEW r \in Rank, NEW p
  PROVE  p \in Puts(values, k, j)[r] <=>
           \E s \in DOMAIN values[r] : \E d \in DofSet(r, k, s) : p = PutOf(values, k, j, r, s, d)
BY DEF Puts, PutOf

\* The values are of copies, for dofs of set k that are in set j, too; every copy of s
\* that has a value for d has v; some copy has one.
PutsFit(values, k, j) ==
  \A q \in Rank : /\ DOMAIN values[q] \subseteq Holds[q]
                  /\ \A t \in DOMAIN values[q] : DofSet(q, k, t) \subseteq DofSet(q, j, t)

Gives(values, k, q, s, d) == s \in DOMAIN values[q] /\ d \in DofSet(q, k, s)
PutsAgree(values, k, s, d, v) == \A q \in Rank : Gives(values, k, q, s, d) => values[q][s][d] = v
IsPut(values, k, s, d) == \E q \in Rank : Gives(values, k, q, s, d)

LEMMA AssembledRow ==
  ASSUME NEW vector, NEW values, NEW k \in SetEnum, NEW j \in SetEnum, RowsAreSound(j),
         PutsFit(values, k, j), NEW r \in Rank, NEW s \in Holds[r], NEW d \in DofSet(r, j, s), NEW v,
         s \in Nat, Row(r, j, s, d) \in DOMAIN vector, PutsAgree(values, k, s, d, v)
  PROVE  Assembled(vector, Puts(values, k, j))[Row(r, j, s, d)] =
           IF IsPut(values, k, s, d) THEN v ELSE vector[Row(r, j, s, d)]
<1> USE DEF PutsFit, Gives, PutsAgree, IsPut
<1> DEFINE row == Row(r, j, s, d)
<1> DEFINE puts == Puts(values, k, j)
<1> DEFINE At(q) == {p \in puts[q] : p.row = row}
<1> DEFINE put == [row |-> row, node |-> s, value |-> v]
<1>1. ASSUME NEW q \in Rank, NEW p \in At(q)
      PROVE  p = put /\ s \in DOMAIN values[q] /\ d \in DofSet(q, k, s)
  <2>1. PICK t \in DOMAIN values[q] : \E e \in DofSet(q, k, t) : p = PutOf(values, k, j, q, t, e)
    BY PutsAre
  <2>2. PICK e \in DofSet(q, k, t) : p = PutOf(values, k, j, q, t, e)
    BY <2>1
  <2>3. t \in Holds[q] /\ e \in DofSet(q, j, t)
    BY <2>1, <2>2
  <2>4. Row(q, j, t, e) = row
    BY <2>2 DEF PutOf
  <2>5. t = s /\ e = d
    BY <2>3, <2>4 DEF RowsAreSound
  <2>6. values[q][s][d] = v
    BY <2>1, <2>2, <2>5
  <2> QED BY <2>1, <2>2, <2>4, <2>5, <2>6 DEF PutOf
<1>2. ASSUME NEW q \in Rank, s \in DOMAIN values[q], d \in DofSet(q, k, s)
      PROVE  put \in At(q)
  <2>1. s \in Holds[q] /\ d \in DofSet(q, j, s)
    BY <1>2
  <2>2. Row(q, j, s, d) = row
    BY <2>1 DEF RowsAreSound
  <2>3. put = PutOf(values, k, j, q, s, d)
    BY <1>2, <2>2 DEF PutOf
  <2> QED BY <1>2, <2>3, PutsAre
<1>3. Assembled(vector, puts)[row] =
        IF \A q \in Rank : At(q) = {} THEN vector[row]
        ELSE (CHOOSE p \in At(MaxOf({q \in Rank : At(q) # {}})) :
                \A x \in At(MaxOf({q \in Rank : At(q) # {}})) : x.node <= p.node).value
  BY DEF Assembled
<1>4. ASSUME NEW q \in Rank, At(q) # {}
      PROVE  At(q) = {put}
  BY <1>1, <1>4
<1> HIDE DEF At, puts
<1>5. CASE \A q \in Rank : At(q) = {}
  <2>1. ~ \E q \in Rank : s \in DOMAIN values[q] /\ d \in DofSet(q, k, s)
    BY <1>2, <1>5
  <2>2. Assembled(vector, puts)[row] = vector[row]
    BY <1>3, <1>5
  <2> QED BY <2>1, <2>2 DEF puts
<1>6. CASE ~ \A q \in Rank : At(q) = {}
  <2> DEFINE W == {q \in Rank : At(q) # {}}
  <2>1. MaxOf(W) \in W
    <3>1. W \subseteq Rank /\ W # {} /\ W \in SUBSET Int
      BY <1>6 DEF Rank
    <3>2. IsFiniteSet(W)
      BY <3>1, RankFinite, FS_Subset
    <3> HIDE DEF W
    <3> QED BY <3>1, <3>2, MaxOfFinite
  <2>2. PICK q \in Rank : q = MaxOf(W) /\ At(q) = {put}
    BY <1>4, <2>1
  <2>3. (CHOOSE p \in {put} : \A x \in {put} : x.node <= p.node) = put
    <3>1. put.node <= put.node
      OBVIOUS
    <3> HIDE DEF put
    <3> QED BY <3>1
  <2>4. Assembled(vector, puts)[row] = put.value
    BY <1>3, <1>6, <2>2, <2>3
  <2>5. \E x \in Rank : s \in DOMAIN values[x] /\ d \in DofSet(x, k, s)
    <3>1. put \in At(q)
      BY <2>2
    <3> QED BY <1>1, <3>1
  <2> QED BY <2>4, <2>5 DEF puts
<1> QED BY <1>5, <1>6

-----------------------------------------------------------------------------
(***************************************************************************)
(* The merged solution, when all the ranks are to solve and every copy has *)
(* the values that the model imposes on its constrained dofs.              *)
(***************************************************************************)
ValuesAreImposed ==
  \A r \in Rank : \A s \in Holds[r] : \A d \in DofSet(r, "s", s) : svalues[r][s][d] = Imposed(s, d)

\* What the ranks put into the vectors that they assemble.
FreeValues ==
  [r \in Rank |-> [s \in Holds[r] |-> [d \in DofSet(r, "f", s) |-> Read(uf, Row(r, "f", s, d))]]]

SpcValues ==
  [r \in Rank |-> [s \in Holds[r] |-> [d \in DofSet(r, "s", s) |-> Read(ys, Row(r, "s", s, d))]]]

ReducedValues(ug) ==
  [r \in Rank |-> [s \in Holds[r] |-> [d \in DofSet(r, "f", s) |-> Read(ug, Row(r, "g", s, d))]]]

MergedFree == Assembled(NewVector(NumberOfDofs("g")), Puts(FreeValues, "f", "g"))

LEMMA MergeIs == Mergesolutionfromftog = Assembled(MergedFree, Puts(SpcValues, "s", "g"))
BY DEF Mergesolutionfromftog, OfCopies, MergedFree, FreeValues, SpcValues

LEMMA ReduceIs ==
  ASSUME NEW ug
  PROVE  Reducevectorgtof(ug) = Assembled(NewVector(NumberOfDofs("f")), Puts(ReducedValues(ug), "f", "f"))
BY DEF Reducevectorgtof, OfCopies, ReducedValues

LEMMA VectorDomains ==
  /\ \A n : DOMAIN NewVector(n) = 0..(n - 1)
  /\ \A vector, puts : DOMAIN Assembled(vector, puts) = DOMAIN vector
BY DEF NewVector, Assembled

LEMMA AllSound ==
  ASSUME Ground, CopiesInv, \A r \in Rank : InUse(r)
  PROVE  /\ TypeInv
         /\ RowsAreSound("g") /\ RowsAreSound("f") /\ RowsAreSound("s")
         /\ \A r \in Rank : \A s \in Holds[r] : s \in Nat
         /\ \A r \in Rank : \A s \in Holds[r] :
              /\ DofSet(r, "g", s) = Dof(s)
              /\ DofSet(r, "f", s) \subseteq Dof(s) /\ DofSet(r, "s", s) \subseteq Dof(s)
              /\ DofSet(r, "f", s) = fset[r][s]
              /\ DofSet(r, "s", s) = Dof(s) \ fset[r][s]
<1>1. TypeInv
  BY DEF Ground
<1>2. RowsAreSound("g") /\ RowsAreSound("f") /\ RowsAreSound("s")
  BY RowsSound DEF SetEnum
<1>3. \A r \in Rank : \A s \in Holds[r] : s \in Nat
  BY HoldsType DEF Sid
<1>4. \A r \in Rank : \A s \in Holds[r] : fset[r][s] \subseteq Dof(s)
  BY <1>1 DEF TypeInv, NodeTypes
<1> QED BY <1>1, <1>2, <1>3, <1>4 DEF DofSet

\* The vector ys has, at the row of a constrained dof, what the model imposes there.
LEMMA YsAt ==
  ASSUME Ground, CopiesInv, \A r \in Rank : InUse(r), ValuesAreImposed,
         \A r \in Rank : DOMAIN svalues[r] = Holds[r],
         NEW r \in Rank, NEW s \in Holds[r], NEW d \in DofSet(r, "s", s)
  PROVE  Read(ys, Row(r, "s", s, d)) = Imposed(s, d)
<1>1. RowsAreSound("s") /\ s \in Nat /\ "s" \in SetEnum
  BY AllSound DEF SetEnum
<1>2. DOMAIN ys = 0..(NumberOfDofs("s") - 1)
  BY VectorDomains DEF ys
<1>3. Row(r, "s", s, d) \in 0..(NumberOfDofs("s") - 1)
  BY <1>1 DEF RowsAreSound
<1>4. \A q \in Rank : s \in DOMAIN svalues[q] /\ d \in DofSet(q, "s", s) => svalues[q][s][d] = Imposed(s, d)
  BY DEF ValuesAreImposed
<1>5. DOMAIN NewVector(NumberOfDofs("s")) = 0..(NumberOfDofs("s") - 1)
  BY VectorDomains
<1>6. ys[Row(r, "s", s, d)] = Imposed(s, d)
  <2>1. PICK v : v = Imposed(s, d)
    OBVIOUS
  <2>2. PutsAgree(svalues, "s", s, d, v) /\ PutsFit(svalues, "s", "s")
    BY <1>4, <2>1 DEF PutsAgree, Gives, PutsFit
  <2>3. IsPut(svalues, "s", s, d)
    BY DEF IsPut, Gives
  <2>4. PICK zeros, values : zeros = NewVector(NumberOfDofs("s")) /\ values = svalues
    OBVIOUS
  <2>5. Row(r, "s", s, d) \in DOMAIN zeros /\ PutsAgree(values, "s", s, d, v) /\ PutsFit(values, "s", "s")
    BY <1>3, <1>5, <2>2, <2>4
  <2>6. Assembled(zeros, Puts(values, "s", "s"))[Row(r, "s", s, d)] =
          IF IsPut(values, "s", s, d) THEN v ELSE zeros[Row(r, "s", s, d)]
    BY <1>1, <2>5, AssembledRow
  <2> QED BY <2>1, <2>3, <2>4, <2>6 DEF ys
<1> QED BY <1>2, <1>3, <1>6 DEF Read

\* The merged solution has, at the row of a free dof, its unknown of the set f.
LEMMA MergedAt ==
  ASSUME Ground, CopiesInv, \A r \in Rank : InUse(r), ValuesAreImposed,
         \A r \in Rank : DOMAIN svalues[r] = Holds[r],
         NEW r \in Rank, NEW s \in Holds[r], NEW d \in Dof(s)
  PROVE  Read(Mergesolutionfromftog, Row(r, "g", s, d)) =
           IF d \in fset[r][s] THEN Unknown(Row(r, "f", s, d)) ELSE Imposed(s, d)
<1> DEFINE N == NumberOfDofs("g")
<1> DEFINE row == Row(r, "g", s, d)
<1>1. /\ RowsAreSound("g") /\ RowsAreSound("f") /\ s \in Nat
      /\ \A q \in Rank : \A t \in Holds[q] :
           /\ DofSet(q, "g", t) = Dof(t) /\ DofSet(q, "f", t) = fset[q][t] /\ DofSet(q, "f", t) \subseteq Dof(t)
           /\ DofSet(q, "s", t) = Dof(t) \ fset[q][t]
  BY AllSound
<1>2. row \in 0..(N - 1)
  BY <1>1 DEF RowsAreSound
<1>3. DOMAIN NewVector(N) = 0..(N - 1) /\ DOMAIN MergedFree = 0..(N - 1)
      /\ DOMAIN Mergesolutionfromftog = 0..(N - 1)
  BY VectorDomains, MergeIs DEF MergedFree
<1>4. \A q \in Rank : s \in Holds[q] => fset[q][s] = fset[r][s]
  BY DEF Ground, SharedSets, SameSets, Ahead, InUse
<1>5. "g" \in SetEnum /\ "f" \in SetEnum /\ "s" \in SetEnum
  BY DEF SetEnum
<1>6. ASSUME d \in fset[r][s]
      PROVE  MergedFree[row] = Unknown(Row(r, "f", s, d))
  <2>1. PICK v : v = Unknown(Row(r, "f", s, d))
    OBVIOUS
  <2>2. \A q \in Rank : DOMAIN FreeValues[q] = Holds[q]
    BY DEF FreeValues
  <2>3. ASSUME NEW q \in Rank, s \in DOMAIN FreeValues[q], d \in DofSet(q, "f", s)
        PROVE  FreeValues[q][s][d] = v
    <3>1. FreeValues[q][s][d] = Read(uf, Row(q, "f", s, d))
      BY <2>2, <2>3 DEF FreeValues
    <3>2. Row(q, "f", s, d) = Row(r, "f", s, d) /\ Row(r, "f", s, d) \in 0..(NumberOfDofs("f") - 1)
      BY <1>1, <1>6, <2>2, <2>3 DEF RowsAreSound
    <3>3. Read(uf, Row(r, "f", s, d)) = Unknown(Row(r, "f", s, d))
      BY <3>2 DEF Read, uf
    <3> QED BY <2>1, <3>1, <3>2, <3>3
  <2>4. IsPut(FreeValues, "f", s, d)
    BY <1>1, <1>6, <2>2 DEF IsPut, Gives
  <2>5. PutsFit(FreeValues, "f", "g") /\ PutsAgree(FreeValues, "f", s, d, v)
    BY <1>1, <2>2, <2>3 DEF PutsFit, PutsAgree, Gives
  <2>6. PICK zeros, values : zeros = NewVector(N) /\ values = FreeValues
    OBVIOUS
  <2>7. /\ d \in DofSet(r, "g", s) /\ Row(r, "g", s, d) \in DOMAIN zeros
        /\ PutsFit(values, "f", "g") /\ PutsAgree(values, "f", s, d, v)
    BY <1>1, <1>2, <1>3, <2>5, <2>6
  <2>8. Assembled(zeros, Puts(values, "f", "g"))[Row(r, "g", s, d)] =
          IF IsPut(values, "f", s, d) THEN v ELSE zeros[Row(r, "g", s, d)]
    <3>1. RowsAreSound("g") /\ s \in Nat
      BY <1>1
    <3> HIDE DEF N, row
    <3> QED BY <1>5, <2>7, <3>1, AssembledRow
  <2> QED BY <2>1, <2>4, <2>6, <2>8 DEF MergedFree
<1>7. \A q \in Rank : DOMAIN SpcValues[q] = Holds[q]
  BY DEF SpcValues
<1>8. PutsFit(SpcValues, "s", "g")
  BY <1>1, <1>7 DEF PutsFit
<1>9. ASSUME NEW v, PutsAgree(SpcValues, "s", s, d, v)
      PROVE  Mergesolutionfromftog[row] = IF IsPut(SpcValues, "s", s, d) THEN v ELSE MergedFree[row]
  <2>1. PICK merged, values : merged = MergedFree /\ values = SpcValues
    OBVIOUS
  <2>2. /\ d \in DofSet(r, "g", s) /\ Row(r, "g", s, d) \in DOMAIN merged
        /\ PutsFit(values, "s", "g") /\ PutsAgree(values, "s", s, d, v)
    BY <1>1, <1>2, <1>3, <1>8, <1>9, <2>1
  <2>3. Assembled(merged, Puts(values, "s", "g"))[Row(r, "g", s, d)] =
          IF IsPut(values, "s", s, d) THEN v ELSE merged[Row(r, "g", s, d)]
    BY <1>1, <1>5, <2>2, AssembledRow
  <2> QED BY <2>1, <2>3, MergeIs
<1>10. CASE d \in fset[r][s]
  <2>1. ~ IsPut(SpcValues, "s", s, d) /\ \A v : PutsAgree(SpcValues, "s", s, d, v)
    BY <1>1, <1>4, <1>7, <1>10 DEF IsPut, PutsAgree, Gives
  <2>2. Mergesolutionfromftog[row] = MergedFree[row]
    BY <1>9, <2>1
  <2> QED BY <1>2, <1>3, <1>6, <1>10, <2>2 DEF Read
<1>11. CASE d \notin fset[r][s]
  <2>1. PICK v : v = Imposed(s, d)
    OBVIOUS
  <2>2. ASSUME NEW q \in Rank, s \in DOMAIN SpcValues[q], d \in DofSet(q, "s", s)
        PROVE  SpcValues[q][s][d] = v
    <3>1. SpcValues[q][s][d] = Read(ys, Row(q, "s", s, d)) /\ s \in Holds[q]
      BY <1>7, <2>2 DEF SpcValues
    <3> QED BY <2>1, <2>2, <3>1, YsAt
  <2>3. IsPut(SpcValues, "s", s, d) /\ PutsAgree(SpcValues, "s", s, d, v)
    BY <1>1, <1>7, <1>11, <2>2 DEF IsPut, PutsAgree, Gives
  <2>4. Mergesolutionfromftog[row] = v
    BY <1>9, <2>3
  <2> QED BY <1>2, <1>3, <1>11, <2>1, <2>4 DEF Read
<1> QED BY <1>10, <1>11

LEMMA UnknownsDiffer ==
  ASSUME NEW x, NEW y
  PROVE  Unknown(x) = Unknown(y) <=> x = y
BY DEF Unknown

\* Reducing the merged solution gives back what the solver has found.
LEMMA ReducedIsFound ==
  ASSUME Ground, CopiesInv, \A r \in Rank : InUse(r), ValuesAreImposed,
         \A r \in Rank : DOMAIN svalues[r] = Holds[r]
  PROVE  Reducevectorgtof(Mergesolutionfromftog) = uf
<1> DEFINE ug == Mergesolutionfromftog
<1> DEFINE N == NumberOfDofs("f")
<1>1. /\ RowsAreSound("f")
      /\ \A q \in Rank : \A t \in Holds[q] :
           t \in Nat /\ DofSet(q, "f", t) = fset[q][t] /\ DofSet(q, "f", t) \subseteq Dof(t)
  BY AllSound
<1>2. DOMAIN NewVector(N) = 0..(N - 1) /\ DOMAIN Reducevectorgtof(ug) = 0..(N - 1)
  BY VectorDomains, ReduceIs
<1>3. ASSUME NEW row \in 0..(N - 1)
      PROVE  Reducevectorgtof(ug)[row] = Unknown(row)
  <2>1. PICK r \in Rank : \E s \in Holds[r] : \E d \in DofSet(r, "f", s) : Row(r, "f", s, d) = row
    BY <1>1 DEF RowsAreSound
  <2>2. PICK s \in Holds[r] : \E d \in DofSet(r, "f", s) : Row(r, "f", s, d) = row
    BY <2>1
  <2>3. PICK d \in DofSet(r, "f", s) : Row(r, "f", s, d) = row
    BY <2>2
  <2>4. PICK v : v = Unknown(row)
    OBVIOUS
  <2>5. \A q \in Rank : DOMAIN ReducedValues(ug)[q] = Holds[q]
    BY DEF ReducedValues
  <2>6. ASSUME NEW q \in Rank, s \in DOMAIN ReducedValues(ug)[q], d \in DofSet(q, "f", s)
        PROVE  ReducedValues(ug)[q][s][d] = v
    <3>1. s \in Holds[q] /\ d \in Dof(s) /\ d \in fset[q][s]
      BY <1>1, <2>5, <2>6
    <3>2. ReducedValues(ug)[q][s][d] = Read(ug, Row(q, "g", s, d))
      BY <2>6, <3>1 DEF ReducedValues
    <3>3. Read(ug, Row(q, "g", s, d)) = Unknown(Row(q, "f", s, d))
      BY <3>1, MergedAt
    <3>4. Row(q, "f", s, d) = row
      BY <1>1, <2>3, <2>6, <3>1 DEF RowsAreSound
    <3> QED BY <2>4, <3>2, <3>3, <3>4
  <2>7. PICK values : values = ReducedValues(ug)
    OBVIOUS
  <2>8. PutsFit(values, "f", "f") /\ PutsAgree(values, "f", s, d, v) /\ IsPut(values, "f", s, d)
    BY <2>5, <2>6, <2>7 DEF PutsFit, PutsAgree, IsPut, Gives
  <2>9. Assembled(NewVector(N), Puts(values, "f", "f"))[Row(r, "f", s, d)] =
          IF IsPut(values, "f", s, d) THEN v ELSE NewVector(N)[Row(r, "f", s, d)]
    <3>1. "f" \in SetEnum /\ s \in Nat /\ Row(r, "f", s, d) \in DOMAIN NewVector(N)
      BY <1>1, <1>2, <2>3 DEF SetEnum
    <3> HIDE DEF N, ug
    <3> QED BY <1>1, <2>8, <3>1, AssembledRow
  <2> QED BY <2>3, <2>4, <2>7, <2>8, <2>9, ReduceIs
<1>4. uf = [row \in 0..(N - 1) |-> Unknown(row)]
  BY DEF uf
<1>5. Reducevectorgtof(ug) = [row \in DOMAIN Reducevectorgtof(ug) |-> Reducevectorgtof(ug)[row]]
  BY ReduceIs DEF Assembled
<1> HIDE DEF ug, N
<1> QED BY <1>2, <1>3, <1>4, <1>5 DEF ug

\* All that a solution sequence does with the merged solution.
LEMMA SolutionMerged ==
  ASSUME Ground, CopiesInv, \A r \in Rank : InUse(r), ValuesAreImposed,
         \A r \in Rank : DOMAIN svalues[r] = Holds[r]
  PROVE  SolutionIsMerged
<1> DEFINE Seen(r, s, d) == Read(Mergesolutionfromftog, Row(r, "g", s, d))
<1>1. \A r \in Rank : \A s \in Holds[r] : \A d \in Dof(s) :
        Seen(r, s, d) = IF d \in fset[r][s] THEN Unknown(Row(r, "f", s, d)) ELSE Imposed(s, d)
  BY MergedAt
<1>2. /\ RowsAreSound("f")
      /\ \A q \in Rank : \A t \in Holds[q] : DofSet(q, "f", t) = fset[q][t] /\ fset[q][t] \subseteq Dof(t)
  BY AllSound
<1>3. ASSUME NEW r \in Rank, NEW s \in Holds[r], NEW d \in Dof(s)
      PROVE  IF d \in fset[r][s] THEN Seen(r, s, d) \in {uf[row] : row \in DOMAIN uf}
                                 ELSE Seen(r, s, d) = Imposed(s, d)
  <2>1. ASSUME d \in fset[r][s]
        PROVE  Unknown(Row(r, "f", s, d)) \in {uf[row] : row \in DOMAIN uf}
    <3>1. Row(r, "f", s, d) \in 0..(NumberOfDofs("f") - 1)
      BY <1>2, <2>1 DEF RowsAreSound
    <3> QED BY <3>1 DEF uf
  <2> QED BY <1>1, <2>1
<1>4. ASSUME NEW r \in Rank, NEW q \in Rank, NEW m \in FreeDofs(r), NEW n \in FreeDofs(q)
      PROVE  Seen(r, m[1], m[2]) = Seen(q, n[1], n[2]) <=> m = n
  <2>1. PICK s \in Holds[r], t \in Holds[q] : m \in {<<s, d>> : d \in fset[r][s]} /\ n \in {<<t, d>> : d \in fset[q][t]}
    BY DEF FreeDofs
  <2>2. PICK d \in fset[r][s], e \in fset[q][t] : m = <<s, d>> /\ n = <<t, e>>
    BY <2>1
  <2>3. d \in Dof(s) /\ e \in Dof(t) /\ d \in DofSet(r, "f", s) /\ e \in DofSet(q, "f", t)
    BY <1>2
  <2>4. Seen(r, s, d) = Unknown(Row(r, "f", s, d)) /\ Seen(q, t, e) = Unknown(Row(q, "f", t, e))
    BY <1>1, <2>3
  <2>5. Row(r, "f", s, d) = Row(q, "f", t, e) <=> s = t /\ d = e
    BY <1>2, <2>3 DEF RowsAreSound
  <2>6. m[1] = s /\ m[2] = d /\ n[1] = t /\ n[2] = e /\ (m = n <=> s = t /\ d = e)
    BY <2>2
  <2> HIDE DEF Seen
  <2> QED BY <2>4, <2>5, <2>6, UnknownsDiffer
<1>5. Reducevectorgtof(Mergesolutionfromftog) = uf
  BY ReducedIsFound
<1> QED BY <1>3, <1>4, <1>5 DEF SolutionIsMerged

-----------------------------------------------------------------------------
(***************************************************************************)
(* The values, step by step. A copy that has applied its constraints has   *)
(* the value of each of them, which no step changes before the next time;  *)
(* the dynamic ones are of this time when they have been reset, for which  *)
(* the numbers of the step before are still those of the g set.            *)
(***************************************************************************)
RankValued(r) ==
  /\ DOMAIN svalues[r] = Holds[r]
  /\ \A s \in Holds[r] : \A d \in Dof(s) :
       /\ d \notin StaticSpc[s] \cup TransientSpc[s] => svalues[r][s][d] = Zero
       /\ pc[r] # "update" =>
            /\ d \in AppliedDofs(s) => svalues[r][s][d] = SpcValue(r, s, d)
            /\ d \in RelaxedDofs(s) => d \in fset[r][s]

DynamicsCurrent ==
  reset /\ now # 0 =>
    \A r \in Rank : \A s \in Holds[r] : \A d \in DynamicSpc[s] : dynvalue[r][s][d] = Given(s, d, now)

AwaitsReset == ~reset => (\A r \in Rank : pc[r] = "update") /\ RowsAreSound("g")

ValuesInv ==
  /\ DOMAIN svalues = Rank
  /\ \A r \in Rank : RankValued(r)
  /\ DynamicsCurrent
  /\ AwaitsReset

\* A node with a dynamic constraint is one of an element.
Visited ==
  /\ Unpaired
  /\ \A s \in Sid : DynamicSpc[s] # {} => \E r \in Rank : s \in Attached[r]

\* A copy that has its values has what the model imposes on its constrained dofs.
LEMMA ValuedIsImposed ==
  ASSUME TypeInv, ValuesInv, \A r \in Rank : InUse(r), now # 0
  PROVE  ValuesAreImposed
<1> SUFFICES ASSUME NEW r \in Rank, NEW s \in Holds[r], NEW d \in DofSet(r, "s", s)
             PROVE  svalues[r][s][d] = Imposed(s, d)
  BY DEF ValuesAreImposed
<1>1. d \in Dof(s) /\ d \notin fset[r][s]
  BY DEF DofSet
<1>2. reset /\ pc[r] # "update"
  <2>1. PICK q \in Rank : TRUE
    BY RankFinite
  <2> QED BY <2>1 DEF ValuesInv, AwaitsReset, InUse
<1>3. /\ d \notin StaticSpc[s] \cup TransientSpc[s] => svalues[r][s][d] = Zero
      /\ d \in AppliedDofs(s) => svalues[r][s][d] = SpcValue(r, s, d)
      /\ d \notin RelaxedDofs(s)
  BY <1>1, <1>2 DEF ValuesInv, RankValued
<1>4. s \in Sid /\ DynamicSpc[s] \subseteq StaticSpc[s]
  BY HoldsType, DynamicAssumption
<1>5. CASE d \in DynamicSpc[s]
  BY <1>2, <1>3, <1>4, <1>5 DEF ValuesInv, DynamicsCurrent, SpcValue, Imposed, AppliedDofs
<1>6. CASE d \notin DynamicSpc[s] /\ d \in AppliedDofs(s)
  BY <1>3, <1>6 DEF SpcValue, Imposed
<1>7. CASE d \notin DynamicSpc[s] /\ d \notin AppliedDofs(s)
  BY <1>3, <1>7 DEF Imposed, AppliedDofs
<1> QED BY <1>5, <1>6, <1>7

LEMMA ValuesInit == ValuedInit => ValuesInv
BY DEF ValuedInit, Init, ValuesInv, RankValued, DynamicsCurrent, AwaitsReset

\* A rank of which none of this changes keeps its values.
LEMMA RankValuedKept ==
  ASSUME NEW r \in Rank, RankValued(r), UNCHANGED <<relaxed, now, dynvalue>>,
         svalues'[r] = svalues[r], fset'[r] = fset[r], pc[r] = "update" => pc'[r] = "update"
  PROVE  RankValued(r)'
<1>1. \A s \in Holds[r] : \A d \in Dof(s) :
        /\ AppliedDofs(s)' = AppliedDofs(s) /\ RelaxedDofs(s)' = RelaxedDofs(s)
        /\ SpcValue(r, s, d)' = SpcValue(r, s, d)
  BY DEF AppliedDofs, RelaxedDofs, SpcValue
<1> QED BY <1>1 DEF RankValued

LEMMA ValuesApply ==
  ASSUME TypeInv, ValuesInv, NEW r \in Rank, ApplyConstraints(r)
  PROVE  ValuesInv'
<1>1. /\ reset /\ UNCHANGED <<relaxed, now, reset, dynvalue>>
      /\ \A q \in Rank \ {r} : pc'[q] = pc[q] /\ fset'[q] = fset[q] /\ svalues'[q] = svalues[q]
      /\ svalues'[r] = [s \in Holds[r] |-> ConstrainedValues(r, s)]
      /\ \A s \in Holds[r] : fset'[r][s] = ConstrainedFSet(r, s)
      /\ DOMAIN svalues' = Rank
  BY DEF ApplyConstraints, UpdateConstraints, Goto, envvars, ValuesInv, TypeInv, NodeTypes, Copies
<1>2. \A q \in Rank \ {r} : RankValued(q)'
  BY <1>1, RankValuedKept DEF ValuesInv
<1>3. RankValued(r)'
  <2> SUFFICES ASSUME NEW s \in Holds[r], NEW d \in Dof(s)
               PROVE  /\ d \notin StaticSpc[s] \cup TransientSpc[s] => svalues'[r][s][d] = Zero
                      /\ d \in AppliedDofs(s)' => svalues'[r][s][d] = SpcValue(r, s, d)'
                      /\ d \in RelaxedDofs(s)' => d \in fset'[r][s]
    BY <1>1 DEF RankValued
  <2>1. /\ AppliedDofs(s)' = AppliedDofs(s) /\ RelaxedDofs(s)' = RelaxedDofs(s)
        /\ SpcValue(r, s, d)' = SpcValue(r, s, d)
    BY <1>1 DEF AppliedDofs, RelaxedDofs, SpcValue
  <2>2. svalues'[r][s][d] = IF d \in AppliedDofs(s) THEN SpcValue(r, s, d)
                            ELSE IF d \in RelaxedDofs(s) \/ MaskedActive(r, s) # active[r][s] THEN Zero
                            ELSE svalues[r][s][d]
    BY <1>1 DEF ConstrainedValues
  <2>3. d \notin StaticSpc[s] \cup TransientSpc[s] => svalues[r][s][d] = Zero /\ d \notin AppliedDofs(s)
    BY DEF ValuesInv, RankValued, AppliedDofs
  <2>4. RelaxedDofs(s) \subseteq fset'[r][s]
    BY <1>1 DEF ConstrainedFSet
  <2> QED BY <2>1, <2>2, <2>3, <2>4
<1>4. DynamicsCurrent'
  BY <1>1 DEF ValuesInv, DynamicsCurrent
<1>5. AwaitsReset'
  BY <1>1 DEF AwaitsReset
<1> QED BY <1>1, <1>2, <1>3, <1>4, <1>5 DEF ValuesInv

\* The fields of this time, by way of the vector over the g set.
LEMMA FieldsAreRead ==
  ASSUME Visited, RowsAreSound("g"), NEW r \in Rank, NEW s \in Holds[r], NEW d \in DynamicSpc[s]
  PROVE  Read(GetSolutionFromInputs, Row(r, "g", s, d)) = Given(s, d, now)
<1> DEFINE N == NumberOfDofs("g")
<1> DEFINE fields == [q \in Rank |-> [t \in Attached[q] |-> [e \in DofSet(q, "g", t) |->
                        IF e \in DynamicSpc[t] THEN Given(t, e, now) ELSE Undefined]]]
<1>1. GetSolutionFromInputs = Assembled(NewVector(N), Puts(fields, "g", "g"))
  BY DEF GetSolutionFromInputs, OfCopies
<1>2. s \in Sid /\ s \in Nat /\ d \in Dof(s) /\ "g" \in SetEnum
  BY HoldsType, DynamicAssumption, ConstraintAssumption DEF Sid, SetEnum
<1>3. d \in DofSet(r, "g", s) /\ Row(r, "g", s, d) \in 0..(N - 1)
  BY <1>2 DEF DofSet, RowsAreSound
<1>4. DOMAIN NewVector(N) = 0..(N - 1) /\ DOMAIN GetSolutionFromInputs = 0..(N - 1)
  BY <1>1, VectorDomains
<1>5. PICK v : v = Given(s, d, now)
  OBVIOUS
<1>6. PICK q \in Rank : s \in Attached[q]
  BY <1>2 DEF Visited
<1>7. PutsFit(fields, "g", "g")
  BY PartitionAssumption DEF PutsFit
<1>8. PutsAgree(fields, "g", s, d, v) /\ IsPut(fields, "g", s, d)
  BY <1>2, <1>5, <1>6 DEF PutsAgree, IsPut, Gives, DofSet
<1>9. PICK zeros, values : zeros = NewVector(N) /\ values = fields
  OBVIOUS
<1>10. /\ PutsFit(values, "g", "g") /\ PutsAgree(values, "g", s, d, v) /\ IsPut(values, "g", s, d)
       /\ Row(r, "g", s, d) \in DOMAIN zeros
  BY <1>3, <1>4, <1>7, <1>8, <1>9
<1>11. Assembled(zeros, Puts(values, "g", "g"))[Row(r, "g", s, d)] =
         IF IsPut(values, "g", s, d) THEN v ELSE zeros[Row(r, "g", s, d)]
  <2>1. s \in Nat /\ "g" \in SetEnum /\ d \in DofSet(r, "g", s)
    BY <1>2, <1>3
  <2> HIDE DEF N, fields
  <2> QED BY <1>10, <2>1, AssembledRow
<1>12. GetSolutionFromInputs[Row(r, "g", s, d)] = v
  BY <1>1, <1>9, <1>10, <1>11
<1> HIDE DEF N, fields
<1> QED BY <1>3, <1>4, <1>5, <1>12 DEF Read

LEMMA ValuesReset ==
  ASSUME ValuesInv, Visited, ResetBoundaryConditions
  PROVE  ValuesInv'
<1>1. /\ RowsAreSound("g") /\ reset' = TRUE /\ UNCHANGED <<pc, relaxed, fset, now, svalues>>
      /\ \A r \in Rank : pc'[r] = "update"
  BY DEF ResetBoundaryConditions, vars, ValuesInv, AwaitsReset
<1>2. \A r \in Rank : RankValued(r)'
  BY <1>1 DEF ValuesInv, RankValued
<1>3. DynamicsCurrent'
  <2> SUFFICES ASSUME NEW r \in Rank, NEW s \in Holds[r], NEW d \in DynamicSpc[s]
               PROVE  dynvalue'[r][s][d] = Given(s, d, now)
    BY <1>1 DEF DynamicsCurrent, Given
  <2>1. dynvalue'[r][s][d] = Read(GetSolutionFromInputs, Row(r, "g", s, d))
    BY DEF ResetBoundaryConditions
  <2> QED BY <1>1, <2>1, FieldsAreRead
<1> QED BY <1>1, <1>2, <1>3 DEF ValuesInv, AwaitsReset

\* The rows are those of the lists, which another time leaves alone.
LEMMA RowsKept ==
  ASSUME UNCHANGED <<fset, clone, size, doflist>>, NEW k \in SetEnum
  PROVE  RowsAreSound(k)' = RowsAreSound(k)
<1>1. ASSUME NEW r \in Rank, NEW s \in Holds[r]
      PROVE  DofSet(r, k, s)' = DofSet(r, k, s)
  <2>1. CASE k = "g"
    <3>1. DofSet(r, k, s) = Dof(s) /\ DofSet(r, k, s)' = Dof(s)
      BY <2>1 DEF DofSet
    <3> QED BY <3>1
  <2>2. CASE k = "f"
    <3>1. DofSet(r, k, s) = fset[r][s] /\ DofSet(r, k, s)' = fset'[r][s]
      BY <2>2 DEF DofSet
    <3> QED BY <3>1
  <2>3. CASE k = "s"
    <3>1. DofSet(r, k, s) = Dof(s) \ fset[r][s] /\ DofSet(r, k, s)' = Dof(s) \ fset'[r][s]
      BY <2>3 DEF DofSet
    <3> QED BY <3>1
  <2> QED BY <2>1, <2>2, <2>3 DEF SetEnum
<1>2. \A r \in Rank : \A s \in Holds[r] : \A d : Row(r, k, s, d)' = Row(r, k, s, d)
  BY <1>1 DEF Row
<1>3. NumberOfDofs(k)' = NumberOfDofs(k)
  <2>1. \A r \in Rank : NumberOfDofsLocal(r, k)' = NumberOfDofsLocal(r, k)
    BY DEF NumberOfDofsLocal, Master
  <2> QED BY <2>1 DEF NumberOfDofs
<1> QED BY <1>1, <1>2, <1>3 DEF RowsAreSound

LEMMA ValuesNextTime ==
  ASSUME Ground, CopiesInv, ValuesInv, NextTime
  PROVE  ValuesInv'
<1>1. /\ \A r \in Rank : pc[r] = "mask" /\ pc'[r] = "update"
      /\ reset' = FALSE /\ UNCHANGED <<fset, clone, size, doflist, svalues>>
  BY DEF NextTime, AssembleMask, Collective, nodevars
<1>2. RowsAreSound("g")'
  <2>1. \A r \in Rank : InUse(r)
    BY <1>1 DEF InUse
  <2>2. RowsAreSound("g")
    BY <2>1, RowsSound DEF SetEnum
  <2> QED BY <1>1, <2>2, RowsKept DEF SetEnum
<1>3. \A r \in Rank : RankValued(r)'
  BY <1>1 DEF ValuesInv, RankValued
<1> QED BY <1>1, <1>2, <1>3 DEF ValuesInv, DynamicsCurrent, AwaitsReset

\* The renumbering and the solution leave the values alone.
LEMMA ValuesOther ==
  ASSUME ValuesInv, UNCHANGED valuevars, UNCHANGED <<relaxed, fset>>, NEW r \in Rank, pc[r] # "update",
         \A q \in Rank : pc[q] = "update" => pc'[q] = "update"
  PROVE  ValuesInv'
<1>1. reset /\ UNCHANGED <<now, reset, dynvalue, svalues>>
  BY DEF ValuesInv, AwaitsReset, valuevars
<1>2. \A q \in Rank : RankValued(q)'
  BY <1>1, RankValuedKept DEF ValuesInv
<1> QED BY <1>1, <1>2 DEF ValuesInv, DynamicsCurrent, AwaitsReset

LEMMA ValuesNext ==
  ASSUME Ground, CopiesInv, ValuesInv, Visited, [ValuedNext]_allvars
  PROVE  ValuesInv'
<1>0. TypeInv /\ \E r \in Rank : TRUE
  BY RankFinite DEF Ground
<1>1. ASSUME NEW r \in Rank, ValuedStep(r)
      PROVE  ValuesInv'
  <2>1. CASE ApplyConstraints(r)
    BY <1>0, <2>1, ValuesApply
  <2>2. CASE UNCHANGED valuevars /\ (\/ SetClone(r) \/ DistributeDofs(r) \/ OffsetDofs(r)
                                     \/ UpdateCloneDofs(r) \/ Solve(r))
    <3>1. UNCHANGED <<relaxed, fset>>
      BY <2>2 DEF SetClone, DistributeDofs, OffsetDofs, UpdateCloneDofs, Solve, nodevars, envvars
    <3>2. pc[r] # "update" /\ \A q \in Rank \ {r} : pc'[q] = pc[q]
      BY <1>0, <2>2 DEF SetClone, DistributeDofs, OffsetDofs, UpdateCloneDofs, Solve, Goto, TypeInv
    <3> QED BY <2>2, <3>1, <3>2, ValuesOther
  <2> QED BY <1>1, <2>1, <2>2 DEF ValuedStep
<1>2. CASE UNCHANGED valuevars /\ (\/ RequiresDofReindexing \/ AllreduceRanks \/ GatherCounts
                                   \/ MaxNumDofs \/ AllreduceTrueDofs)
  <2>1. UNCHANGED <<relaxed, fset>>
    BY <1>2 DEF RequiresDofReindexing, AllreduceRanks, GatherCounts, MaxNumDofs, AllreduceTrueDofs,
                nodevars, envvars
  <2>2. \A q \in Rank : pc[q] # "update"
    BY <1>2 DEF RequiresDofReindexing, AllreduceRanks, GatherCounts, MaxNumDofs, AllreduceTrueDofs,
                Collective
  <2> QED BY <1>0, <1>2, <2>1, <2>2, ValuesOther
<1>3. CASE UNCHANGED allvars
  <2>1. UNCHANGED <<pc, relaxed, fset, clone, size, doflist, now, reset, dynvalue, svalues>>
    BY <1>3 DEF allvars, vars
  <2>2. RowsAreSound("g")' = RowsAreSound("g")
    BY <2>1, RowsKept DEF SetEnum
  <2>3. \A q \in Rank : RankValued(q)'
    BY <2>1, RankValuedKept DEF ValuesInv
  <2> QED BY <2>1, <2>2, <2>3 DEF ValuesInv, DynamicsCurrent, AwaitsReset
<1> QED BY <1>1, <1>2, <1>3, ValuesReset, ValuesNextTime DEF ValuedNext, ValuedCollective

\* When all ranks are to solve at a later time, the merged solution has at each
\* constrained dof what the model imposes there, at each free dof an unknown of its own,
\* and its reduction is what the solver has found (Mergesolutionfromftogx,
\* Reducevectorgtofx): whatever the partition, the constraints and the ice, of nodes
\* that all belong to elements of their rank and no copy of which comes of a pairing.
THEOREM SolutionsAreMerged == ValuedSpec => [](Visited => SolutionIsMerged)
<1> DEFINE Steady == Unpaired => Ground /\ CopiesInv
<1>1. ValuedSpec => []Steady
  BY ValuesKeepNumbering, CopiesInvariance, PTL
<1>2. ValuedInit => (Visited => ValuesInv)
  BY ValuesInit
<1>3. Steady /\ (Visited => ValuesInv) /\ [ValuedNext]_allvars => (Visited => ValuesInv)'
  BY ValuesNext DEF Visited, Unpaired
<1>4. Steady /\ (Visited => ValuesInv) => (Visited => SolutionIsMerged)
  <2> SUFFICES ASSUME Ground, CopiesInv, ValuesInv, Visited, \A r \in Rank : pc[r] = "solve", now # 0
               PROVE  SolutionIsMerged
    BY DEF SolutionIsMerged, Visited
  <2>1. \A r \in Rank : InUse(r)
    BY DEF InUse
  <2>2. ValuesAreImposed
    BY <2>1, ValuedIsImposed DEF Ground
  <2>3. \A r \in Rank : DOMAIN svalues[r] = Holds[r]
    BY DEF ValuesInv, RankValued
  <2> QED BY <2>1, <2>2, <2>3, SolutionMerged
<1> HIDE DEF Steady
<1> QED BY <1>1, <1>2, <1>3, <1>4, PTL DEF ValuedSpec

=============================================================================

------------------------ MODULE GroundingLine_proofs ------------------------
(***************************************************************************)
(* Theorems about the migration of the grounding line, for any mesh, any   *)
(* partition, any bedrock and sea, and any thickness that mass transport   *)
(* leaves.                                                                 *)
(***************************************************************************)
EXTENDS GroundingLine, Reductions, Integers, FiniteSetTheorems, TLAPS

(***************************************************************************)
(* A nonempty set of natural numbers has a least element.                  *)
(***************************************************************************)
LEMMA LeastElement ==
  ASSUME NEW T \in SUBSET Nat, T # {}
  PROVE  \E x \in T : \A y \in T : x <= y
<1> DEFINE Below == {0..(n-1) : n \in T}
<1>1. IsWellFoundedOn(StrictSubsetOrdering(Nat), FiniteSubsetsOf(Nat))
  BY FS_StrictSubsetOrderingWellFounded
<1>2. Below \subseteq FiniteSubsetsOf(Nat)
  <2>1. \A n \in Nat : IsFiniteSet(0..(n-1))
    BY FS_Interval
  <2> QED BY <2>1 DEF FiniteSubsetsOf
<1>3. Below # {}
  OBVIOUS
<1>4. PICK b \in Below : \A c \in Below : <<c, b>> \notin StrictSubsetOrdering(Nat)
  <2> HIDE DEF Below
  <2> QED BY <1>1, <1>2, <1>3, WFMin
<1>5. PICK x \in T : b = 0..(x-1)
  OBVIOUS
<1>6. ASSUME NEW y \in T, y < x
      PROVE  FALSE
  <2>1. 0..(y-1) \subseteq 0..(x-1) /\ 0..(y-1) # 0..(x-1)
    <3>1. y \in 0..(x-1) /\ y \notin 0..(y-1)
      BY <1>6
    <3>2. 0..(y-1) \subseteq 0..(x-1)
      BY <1>6
    <3> QED BY <3>1, <3>2
  <2>2. 0..(y-1) \in SUBSET Nat /\ 0..(x-1) \in SUBSET Nat
    OBVIOUS
  <2>3. <<0..(y-1), b>> \in StrictSubsetOrdering(Nat)
    BY <2>1, <2>2, <1>5 DEF StrictSubsetOrdering
  <2> QED BY <2>3, <1>4
<1> QED BY <1>6

(***************************************************************************)
(* The recursive function exists: its domain grows one index at a time.    *)
(***************************************************************************)
LEMMA RunningSumExists ==
  ASSUME NEW w, NEW n \in Nat
  PROVE  \E f : f = [i \in 0..n |-> IF i = 0 THEN 0 ELSE f[i-1] + w[i-1]]
<1> DEFINE IsSum(f, m) == f = [i \in 0..m |-> IF i = 0 THEN 0 ELSE f[i-1] + w[i-1]]
<1> DEFINE Bad == {m \in Nat : ~ \E f : IsSum(f, m)}
<1> SUFFICES Bad = {}
  OBVIOUS
<1> SUFFICES ASSUME Bad # {} PROVE FALSE
  OBVIOUS
<1>1. PICK m \in Bad : \A k \in Bad : m <= k
  <2>1. Bad \in SUBSET Nat
    OBVIOUS
  <2> HIDE DEF Bad
  <2> QED BY <2>1, LeastElement
<1>2. IsSum([i \in 0..0 |-> 0], 0)
  OBVIOUS
<1>3. m # 0
  BY <1>2
<1>4. PICK f : IsSum(f, m-1)
  BY <1>1, <1>3
<1> DEFINE g == [i \in 0..m |-> IF i = m THEN f[m-1] + w[m-1] ELSE f[i]]
<1>5. IsSum(g, m)
  <2>1. ASSUME NEW i \in 0..m
        PROVE  g[i] = IF i = 0 THEN 0 ELSE g[i-1] + w[i-1]
    <3>1. CASE i = m
      BY <3>1, <1>3
    <3>2. CASE i # m
      <4>1. i \in 0..(m-1)
        BY <3>2
      <4>2. f[i] = IF i = 0 THEN 0 ELSE f[i-1] + w[i-1]
        BY <4>1, <1>4
      <4>3. i # 0 => i-1 \in 0..m /\ i-1 # m
        BY <4>1
      <4> QED BY <4>1, <4>2, <4>3, <3>2
    <3> QED BY <3>1, <3>2
  <2> QED BY <2>1
<1> QED BY <1>5

(***************************************************************************)
(* The equations of the loop.                                              *)
(***************************************************************************)
LEMMA RunningSumFcn ==
  ASSUME NEW w, NEW n \in Nat
  PROVE  \E f : /\ f = [i \in 0..n |-> IF i = 0 THEN 0 ELSE f[i-1] + w[i-1]]
                /\ RunningSum(w, n) = f[n]
<1> DEFINE F == CHOOSE f : f = [i \in 0..n |-> IF i = 0 THEN 0 ELSE f[i-1] + w[i-1]]
<1>1. F = [i \in 0..n |-> IF i = 0 THEN 0 ELSE F[i-1] + w[i-1]]
  BY RunningSumExists
<1>2. RunningSum(w, n) = F[n]
  BY DEF RunningSum
<1> QED BY <1>1, <1>2

(***************************************************************************)
(* Two such tables agree wherever both are defined.                        *)
(***************************************************************************)
TabulatesSum(f, w, n) ==
  \A i \in 0..n : f[i] = IF i = 0 THEN 0 ELSE f[i-1] + w[i-1]

LEMMA RunningSumUnique ==
  ASSUME NEW w, NEW m \in Nat, NEW n \in Nat, m <= n, NEW f, NEW g,
         TabulatesSum(f, w, m), TabulatesSum(g, w, n)
  PROVE  \A i \in 0..m : f[i] = g[i]
<1> USE DEF TabulatesSum
<1> DEFINE Bad == {i \in 0..m : f[i] # g[i]}
<1> SUFFICES ASSUME Bad # {} PROVE FALSE
  OBVIOUS
<1>1. PICK i \in Bad : \A j \in Bad : i <= j
  <2>1. Bad \in SUBSET Nat
    OBVIOUS
  <2> HIDE DEF Bad
  <2> QED BY <2>1, LeastElement
<1>2. i \in 0..m /\ i \in 0..n
  OBVIOUS
<1>3. CASE i = 0
  BY <1>2, <1>3
<1>4. CASE i # 0
  <2>1. i-1 \in 0..m /\ i-1 < i /\ i \in Nat
    BY <1>2, <1>4
  <2>2. i-1 \notin Bad
    <3> HIDE DEF Bad
    <3> QED BY <1>1, <2>1
  <2>3. f[i-1] = g[i-1]
    BY <2>1, <2>2
  <2>4. f[i] = f[i-1] + w[i-1] /\ g[i] = g[i-1] + w[i-1]
    BY <1>2, <1>4
  <2> QED BY <2>3, <2>4
<1> QED BY <1>3, <1>4

(***************************************************************************)
(* The equations of the loop: it starts at 0, and each turn adds one       *)
(* count.                                                                  *)
(***************************************************************************)
LEMMA RunningSumZero ==
  ASSUME NEW w
  PROVE  RunningSum(w, 0) = 0
BY RunningSumFcn

LEMMA RunningSumStep ==
  ASSUME NEW w, NEW n \in Nat
  PROVE  RunningSum(w, n+1) = RunningSum(w, n) + w[n]
<1>1. PICK f : /\ f = [i \in 0..n |-> IF i = 0 THEN 0 ELSE f[i-1] + w[i-1]]
               /\ RunningSum(w, n) = f[n]
  BY RunningSumFcn
<1>2. PICK g : /\ g = [i \in 0..(n+1) |-> IF i = 0 THEN 0 ELSE g[i-1] + w[i-1]]
               /\ RunningSum(w, n+1) = g[n+1]
  BY RunningSumFcn, n+1 \in Nat
<1>3. f[n] = g[n]
  <2>1. n+1 \in Nat /\ n <= n+1 /\ n \in 0..n
    OBVIOUS
  <2>2. TabulatesSum(f, w, n)
    BY <1>1 DEF TabulatesSum
  <2>3. TabulatesSum(g, w, n+1)
    BY <1>2 DEF TabulatesSum
  <2>4. \A i \in 0..n : f[i] = g[i]
    BY <2>1, <2>2, <2>3, RunningSumUnique
  <2> QED BY <2>1, <2>4
<1>4. g[n+1] = g[n] + w[n]
  <2>1. n+1 \in 0..(n+1) /\ n+1 # 0 /\ (n+1)-1 = n
    OBVIOUS
  <2> QED BY <1>2, <2>1
<1> QED BY <1>1, <1>2, <1>3, <1>4

(***************************************************************************)
(* Sums of natural numbers are natural numbers, whatever prefix is taken.  *)
(***************************************************************************)
LEMMA RunningSumNat ==
  ASSUME NEW N \in Nat, NEW w \in [0..(N-1) -> Nat]
  PROVE  \A n \in 0..N : RunningSum(w, n) \in Nat
<1> DEFINE Bad == {n \in 0..N : RunningSum(w, n) \notin Nat}
<1> SUFFICES ASSUME Bad # {} PROVE FALSE
  OBVIOUS
<1>1. PICK n \in Bad : \A k \in Bad : n <= k
  <2>1. Bad \in SUBSET Nat
    OBVIOUS
  <2> HIDE DEF Bad
  <2> QED BY <2>1, LeastElement
<1>2. n # 0
  BY RunningSumZero
<1>3. n-1 \in Nat /\ n-1 \in 0..(N-1) /\ n-1 \in 0..N /\ (n-1)+1 = n
  BY <1>2
<1>4. n-1 \notin Bad
  BY <1>1, <1>3
<1>5. RunningSum(w, n-1) \in Nat
  BY <1>3, <1>4
<1>6. RunningSum(w, n) = RunningSum(w, n-1) + w[n-1]
  BY <1>3, RunningSumStep
<1>7. w[n-1] \in Nat
  BY <1>3
<1>8. RunningSum(w, n) \in Nat
  BY <1>5, <1>6, <1>7
<1> QED BY <1>8

(***************************************************************************)
(* The blocks [RunningSum(i), RunningSum(i) + w[i]) follow one another.    *)
(***************************************************************************)
LEMMA RunningSumOrdered ==
  ASSUME NEW N \in Nat, NEW w \in [0..(N-1) -> Nat]
  PROVE  \A n \in 0..N, i \in 0..(N-1) :
            i < n => RunningSum(w, i) + w[i] <= RunningSum(w, n)
<1> DEFINE Bad == {n \in 0..N : \E i \in 0..(N-1) :
                     i < n /\ ~ (RunningSum(w, i) + w[i] <= RunningSum(w, n))}
<1> SUFFICES ASSUME Bad # {} PROVE FALSE
  OBVIOUS
<1>1. PICK n \in Bad : \A k \in Bad : n <= k
  <2>1. Bad \in SUBSET Nat
    OBVIOUS
  <2> HIDE DEF Bad
  <2> QED BY <2>1, LeastElement
<1>2. PICK i \in 0..(N-1) : i < n /\ ~ (RunningSum(w, i) + w[i] <= RunningSum(w, n))
  OBVIOUS
<1>3. n-1 \in Nat /\ n-1 \in 0..(N-1) /\ n-1 \in 0..N /\ (n-1)+1 = n
  BY <1>2
<1>4. n-1 \notin Bad
  BY <1>1, <1>3
<1>5. RunningSum(w, n) = RunningSum(w, n-1) + w[n-1]
  BY <1>3, RunningSumStep
<1>6. w[n-1] \in Nat /\ w[i] \in Nat /\ RunningSum(w, i) \in Nat /\ RunningSum(w, n-1) \in Nat
  <2>1. \A k \in 0..N : RunningSum(w, k) \in Nat
    BY RunningSumNat
  <2>2. i \in 0..N
    OBVIOUS
  <2> QED BY <1>3, <2>1, <2>2
<1>7. CASE i = n-1
  BY <1>2, <1>5, <1>6, <1>7
<1>8. CASE i < n-1
  <2>1. RunningSum(w, i) + w[i] <= RunningSum(w, n-1)
    BY <1>3, <1>4, <1>8
  <2> QED BY <1>2, <1>5, <1>6, <2>1
<1> QED BY <1>2, <1>3, <1>7, <1>8

(***************************************************************************)
(* A nonempty finite set of integers has a largest element: MaxOf finds it. *)
(***************************************************************************)
LEMMA MaxOfFinite ==
  ASSUME NEW S \in SUBSET Int, IsFiniteSet(S), S # {}
  PROVE  MaxOf(S) \in S /\ \A x \in S : x <= MaxOf(S)
<1> DEFINE Above(x) == {y \in S : x < y}
<1> DEFINE T == {Above(x) : x \in S}
<1>1. IsWellFoundedOn(StrictSubsetOrdering(Int), FiniteSubsetsOf(Int))
  BY FS_StrictSubsetOrderingWellFounded
<1>2. T \subseteq FiniteSubsetsOf(Int)
  <2>1. ASSUME NEW x \in S
        PROVE  IsFiniteSet(Above(x)) /\ Above(x) \subseteq Int
    BY FS_Subset, Above(x) \subseteq S
  <2> QED BY <2>1 DEF FiniteSubsetsOf
<1>3. T # {}
  OBVIOUS
<1>4. PICK b \in T : \A c \in T : <<c, b>> \notin StrictSubsetOrdering(Int)
  <2> HIDE DEF T
  <2> QED BY <1>1, <1>2, <1>3, WFMin
<1>5. PICK m \in S : b = Above(m)
  OBVIOUS
<1>6. ASSUME NEW y \in S, m < y
      PROVE  FALSE
  <2>1. Above(y) \subseteq Above(m) /\ Above(y) # Above(m)
    <3>1. \A z \in Above(y) : z \in Int /\ y < z /\ z \in S
      OBVIOUS
    <3>2. \A z \in Above(y) : m < z
      BY <3>1, <1>6
    <3>3. y \in Above(m) /\ y \notin Above(y)
      BY <1>6
    <3> QED BY <3>1, <3>2, <3>3
  <2>2. <<Above(y), Above(m)>> \in StrictSubsetOrdering(Int)
    BY <2>1 DEF StrictSubsetOrdering
  <2> QED BY <2>2, <1>4, <1>5
<1>7. m \in S /\ \A x \in S : x <= m
  BY <1>6
<1> QED BY <1>7 DEF MaxOf

-----------------------------------------------------------------------------
(***************************************************************************)
(* The mesh and the geometry.                                              *)
(***************************************************************************)
LEMMA RankFinite == IsFiniteSet(Rank) /\ Rank # {} /\ Rank \subseteq Int
<1>1. 0 \in Int /\ NumProcs - 1 \in Int /\ 0 \in 0..(NumProcs - 1)
  BY MeshAssumption
<1>2. IsFiniteSet(0..(NumProcs - 1))
  BY <1>1, FS_Interval
<1> QED BY <1>1, <1>2 DEF Rank

LEMMA VertexFinite == IsFiniteSet(Vertex)
<1>1. 0 \in Int /\ NumVertices - 1 \in Int
  BY MeshAssumption
<1> QED BY <1>1, FS_Interval DEF Vertex

LEMMA OwnVertices ==
  ASSUME NEW r \in Rank
  PROVE  VerticesOn(r) \subseteq Vertex
<1>1. \A e \in ElementsOf[r] : e \in Element
  BY DEF Element
<1> QED BY <1>1, MeshAssumption DEF VerticesOn

\* Every vertex is on a rank; the last of them exists.
LEMMA LastRankHolds ==
  ASSUME NEW v \in Vertex
  PROVE  LastRank(v) \in Rank /\ v \in VerticesOn(LastRank(v))
<1> DEFINE Holders == {r \in Rank : v \in VerticesOn(r)}
<1>1. Holders \subseteq Rank /\ Holders # {}
  BY MeshAssumption
<1>2. IsFiniteSet(Holders) /\ Holders \in SUBSET Int
  BY <1>1, RankFinite, FS_Subset
<1>3. MaxOf(Holders) \in Holders
  BY <1>1, <1>2, MaxOfFinite
<1> QED BY <1>3 DEF LastRank

LEMMA ThicknessTypes ==
  ASSUME NEW h \in NextThickness, NEW v \in Vertex
  PROVE  h[v] \in Nat /\ Draft[h[v]] \in Nat
BY GeometryAssumption DEF NextThickness

LEMMA SeaAndBedTypes ==
  ASSUME NEW sl \in SeaLevels, NEW v \in Vertex
  PROVE  sl[v] \in Int /\ Bed[v] \in Int
BY GeometryAssumption

LEMMA HydroBaseInt ==
  ASSUME NEW sl \in SeaLevels, NEW h \in NextThickness, NEW v \in Vertex
  PROVE  HydroBase(sl[v], h[v]) \in Int
BY ThicknessTypes, SeaAndBedTypes DEF HydroBase

\* The numbers that the geometry at a vertex of a rank is made of.
LEMMA VertexTypes ==
  ASSUME TypeOK, NEW r \in Rank, NEW v \in VerticesOn(r)
  PROVE  /\ v \in Vertex
         /\ Bed[v] \in Int /\ sealevel[v] \in Int
         /\ thickness[v] \in Nat /\ Draft[thickness[v]] \in Nat
         /\ HydroBase(sealevel[v], thickness[v]) \in Int
         /\ HydroBase(sealevel[v], thickness[v]) = sealevel[v] - Draft[thickness[v]]
         /\ base[r][v] \in Int /\ surface[r][v] \in Int /\ levelset[r][v] \in Int
         /\ phi[v] \in Int
<1>1. v \in Vertex
  BY OwnVertices
<1>2. sealevel \in SeaLevels /\ thickness \in NextThickness
  BY DEF TypeOK
<1>3. base[r] \in [VerticesOn(r) -> Int] /\ surface[r] \in [VerticesOn(r) -> Int]
      /\ levelset[r] \in [VerticesOn(r) -> Int]
  BY DEF TypeOK, Inputs
<1>4. phi[v] \in Int
  BY <1>1 DEF TypeOK
<1> QED BY <1>1, <1>2, <1>3, <1>4, ThicknessTypes, SeaAndBedTypes DEF HydroBase

\* A sum of counts is zero only if every one of them is.
LEMMA ZeroSum ==
  ASSUME NEW w \in [Rank -> Nat], RunningSum(w, NumProcs) = 0, NEW r \in Rank
  PROVE  w[r] = 0
<1>1. NumProcs \in Nat /\ w \in [0..(NumProcs - 1) -> Nat] /\ r \in 0..(NumProcs - 1)
  BY MeshAssumption DEF Rank
<1>2. r \in 0..NumProcs /\ NumProcs \in 0..NumProcs /\ r < NumProcs /\ w[r] \in Nat
  BY <1>1
<1>3. RunningSum(w, r) + w[r] <= RunningSum(w, NumProcs)
  BY <1>1, <1>2, RunningSumOrdered
<1>4. RunningSum(w, r) \in Nat
  BY <1>1, <1>2, RunningSumNat
<1> QED BY <1>2, <1>3, <1>4

-----------------------------------------------------------------------------
(***************************************************************************)
(* Type correctness.                                                       *)
(***************************************************************************)
LEMMA FlipsFinite ==
  ASSUME TypeOK, NEW r \in Rank
  PROVE  IsFiniteSet(Flips(r)) /\ Cardinality(Flips(r)) \in Nat
<1>1. IsFiniteSet(ElementsOf[r] \cap neighbors)
  BY MeshAssumption, FS_Subset, ElementsOf[r] \cap neighbors \subseteq ElementsOf[r]
<1>2. IsFiniteSet(wants)
  BY VertexFinite, FS_Subset DEF TypeOK
<1>3. IsFiniteSet((ElementsOf[r] \cap neighbors) \X wants)
  BY <1>1, <1>2, FS_Product
<1>4. Flips(r) \subseteq (ElementsOf[r] \cap neighbors) \X wants
  BY DEF Flips
<1>5. IsFiniteSet(Flips(r))
  BY <1>3, <1>4, FS_Subset
<1> QED BY <1>5, FS_CardinalityType

LEMMA TypeInit == Init => TypeOK
<1> SUFFICES ASSUME Init PROVE TypeOK
  OBVIOUS
<1>1. pc \in [Rank -> PC]
  BY DEF Init, PC
<1>2. style \in Styles /\ sealevel \in SeaLevels /\ thickness \in NextThickness
  BY DEF Init
<1>3. PICK f \in Masks :
        /\ levelset = [r \in Rank |-> [v \in VerticesOn(r) |-> f[v]]]
        /\ base = [r \in Rank |-> [v \in VerticesOn(r) |-> InitBase(v, f, sealevel, thickness)]]
        /\ shelf = Floating(f)
  BY DEF Init
<1>4. ASSUME NEW r \in Rank, NEW v \in VerticesOn(r)
      PROVE  /\ f[v] \in Int
             /\ InitBase(v, f, sealevel, thickness) \in Int
             /\ InitBase(v, f, sealevel, thickness) + thickness[v] \in Int
  <2>1. v \in Vertex
    BY OwnVertices
  <2>2. f[v] \in Int
    BY <2>1, GeometryAssumption
  <2>3. Bed[v] \in Int /\ thickness[v] \in Nat /\ HydroBase(sealevel[v], thickness[v]) \in Int
    BY <1>2, <2>1, ThicknessTypes, SeaAndBedTypes, HydroBaseInt
  <2> QED BY <2>2, <2>3 DEF InitBase
<1>5. Inputs(levelset)
  BY <1>3, <1>4 DEF Inputs
<1>6. Inputs(base)
  BY <1>3, <1>4 DEF Inputs
<1>7. Inputs(surface)
  <2>1. surface = [r \in Rank |-> [v \in VerticesOn(r) |-> base[r][v] + thickness[v]]]
    BY DEF Init
  <2>2. \A r \in Rank : \A v \in VerticesOn(r) : base[r][v] + thickness[v] \in Int
    BY <1>3, <1>4
  <2> QED BY <2>1, <2>2 DEF Inputs
<1>8. shelf \subseteq Vertex
  BY <1>3, GeometryAssumption DEF Floating
<1> QED
  BY <1>1, <1>2, <1>5, <1>6, <1>7, <1>8 DEF Init, TypeOK

LEMMA TypeTransport ==
  ASSUME TypeOK, Transport
  PROVE  TypeOK'
<1>1. PICK sl \in SeaLevels, h \in NextThickness :
        /\ sealevel' = sl
        /\ thickness' = h
        /\ base' = [r \in Rank |-> [v \in VerticesOn(r) |-> TransportedBase(r, v, sl, h)]]
        /\ surface' = [r \in Rank |-> [v \in VerticesOn(r) |-> TransportedBase(r, v, sl, h) + h[v]]]
  BY DEF Transport
<1>2. ASSUME NEW r \in Rank, NEW v \in VerticesOn(r)
      PROVE  TransportedBase(r, v, sl, h) \in Int /\ TransportedBase(r, v, sl, h) + h[v] \in Int
  <2>1. v \in Vertex /\ base[r][v] \in Int
    BY VertexTypes
  <2> QED BY <2>1, HydroBaseInt, ThicknessTypes DEF TransportedBase
<1>3. Inputs(base') /\ Inputs(surface')
  BY <1>1, <1>2 DEF Inputs
<1>4. pc' \in [Rank -> PC]
  BY DEF Transport, Collective, PC
<1> QED
  BY <1>1, <1>3, <1>4 DEF TypeOK, Transport, flood, Inputs

LEMMA TypeLevelset ==
  ASSUME TypeOK, AssembleLevelset
  PROVE  TypeOK'
<1>1. vecphi' = [v \in Vertex |-> levelset[LastRank(v)][v]] /\ phi' = vecphi'
  BY DEF AssembleLevelset
<1>2. ASSUME NEW v \in Vertex
      PROVE  levelset[LastRank(v)][v] \in Int
  BY LastRankHolds, VertexTypes
<1>3. vecphi' \in [Vertex -> Int] /\ phi' \in [Vertex -> Int]
  BY <1>1, <1>2
<1>4. shelf' \subseteq Vertex
  BY <1>3 DEF AssembleLevelset, Floating
<1>5. pc' \in [Rank -> PC]
  BY DEF AssembleLevelset, Collective, PC
<1> QED
  BY <1>3, <1>4, <1>5 DEF TypeOK, AssembleLevelset, geometry, Inputs

LEMMA MigratedTypes ==
  ASSUME TypeOK, NEW r \in Rank, NEW v \in VerticesOn(r)
  PROVE  /\ MigratedBase(r, v) \in Int
         /\ MigratedSurface(r, v) \in Int
         /\ MigratedLevelset(r, v) \in Int
BY VertexTypes DEF MigratedBase, MigratedSurface, MigratedLevelset, Flotation

LEMMA TypeMigrate ==
  ASSUME TypeOK, NEW r \in Rank, MigrateGroundingLine(r)
  PROVE  TypeOK'
<1>1. ASSUME NEW f, Inputs(f), NEW g \in [VerticesOn(r) -> Int]
      PROVE  Inputs([f EXCEPT ![r] = g])
  BY <1>1 DEF Inputs
<1>2. /\ [v \in VerticesOn(r) |-> MigratedBase(r, v)] \in [VerticesOn(r) -> Int]
      /\ [v \in VerticesOn(r) |-> MigratedSurface(r, v)] \in [VerticesOn(r) -> Int]
      /\ [v \in VerticesOn(r) |-> MigratedLevelset(r, v)] \in [VerticesOn(r) -> Int]
  BY MigratedTypes
<1>3. Inputs(base') /\ Inputs(surface') /\ Inputs(levelset')
  <2>1. Inputs(base) /\ Inputs(surface) /\ Inputs(levelset)
    BY DEF TypeOK
  <2> QED BY <1>1, <1>2, <2>1 DEF MigrateGroundingLine
<1>4. pc' \in [Rank -> PC]
  BY DEF MigrateGroundingLine, Goto, PC, TypeOK
<1> QED
  BY <1>3, <1>4 DEF TypeOK, MigrateGroundingLine, flood, Inputs

LEMMA TypePotential ==
  ASSUME TypeOK, PotentialUngrounding
  PROVE  TypeOK'
<1>1. pc' \in [Rank -> PC]
  BY DEF PotentialUngrounding, Collective, PC
<1>2. wants' \subseteq Vertex
  BY DEF PotentialUngrounding
<1> QED
  BY <1>1, <1>2 DEF TypeOK, PotentialUngrounding, geometry, flood, Inputs

LEMMA TypeNeighbors ==
  ASSUME TypeOK, AssembleNeighbors
  PROVE  TypeOK'
<1>1. pc' \in [Rank -> PC]
  BY DEF AssembleNeighbors, Collective, PC
<1>2. neighbors' \subseteq Element
  BY DEF AssembleNeighbors
<1> QED
  BY <1>1, <1>2 DEF TypeOK, AssembleNeighbors, geometry, Inputs

LEMMA TypePropagate ==
  ASSUME TypeOK, NEW r \in Rank, UpdatePotentialUngrounding(r)
  PROVE  TypeOK'
<1>1. pc' \in [Rank -> PC]
  BY DEF UpdatePotentialUngrounding, Goto, PC, TypeOK
<1>2. Reached(r) \subseteq VerticesOn(r)
  BY DEF Reached, VerticesOn
<1>3. DOMAIN pending' = Rank /\ \A q \in Rank : pending'[q] \subseteq VerticesOn(q)
  BY <1>2 DEF UpdatePotentialUngrounding, TypeOK
<1>4. localflipped' \in [Rank -> Nat]
  BY FlipsFinite DEF UpdatePotentialUngrounding, TypeOK
<1> QED
  BY <1>1, <1>3, <1>4 DEF TypeOK, UpdatePotentialUngrounding, geometry, Inputs

LEMMA TypeFlips ==
  ASSUME TypeOK, AssembleFlips
  PROVE  TypeOK'
<1>1. pc' \in [Rank -> PC]
  BY DEF AssembleFlips, PC
<1>2. vecphi' \in [Vertex -> Int] /\ phi' \in [Vertex -> Int]
  BY DEF AssembleFlips, TypeOK
<1>3. DOMAIN pending' = Rank /\ \A q \in Rank : pending'[q] \subseteq VerticesOn(q)
  BY DEF AssembleFlips
<1> QED
  BY <1>1, <1>2, <1>3 DEF TypeOK, AssembleFlips, geometry, Inputs

LEMMA TypeNext == TypeOK /\ [Next]_vars => TypeOK'
<1> SUFFICES ASSUME TypeOK, [Next]_vars PROVE TypeOK'
  OBVIOUS
<1>1. CASE CollectiveStep
  BY <1>1, TypeTransport, TypePotential, TypeLevelset, TypeNeighbors, TypeFlips
     DEF CollectiveStep
<1>2. ASSUME NEW r \in Rank, LocalStep(r)
      PROVE  TypeOK'
  BY <1>2, TypePropagate, TypeMigrate DEF LocalStep
<1>3. CASE UNCHANGED vars
  BY <1>3 DEF vars, TypeOK, Inputs
<1> QED BY <1>1, <1>2, <1>3 DEF Next

\* Every variable has its type, for any mesh and geometry: the counts of the flood are
\* counts of finite sets, and the last rank that inserts a level set exists because
\* every vertex is on a rank.
THEOREM TypeCorrect == Spec => []TypeOK
BY TypeInit, TypeNext, PTL DEF Spec

-----------------------------------------------------------------------------
(***************************************************************************)
(* The ranks go through a flood and an update together: only where they    *)
(* work on their own may one be ahead of another.                          *)
(***************************************************************************)
Together(a, b) ==
  a = b \/ {a, b} \subseteq {"propagate", "flips"} \/ {a, b} \subseteq {"migrate", "transport"}

SamePhase == \A r1, r2 \in Rank : Together(pc[r1], pc[r2])

\* Two ranks that share a vertex have the same ice there, but while one has updated
\* its geometry and the other has not: it is then the update of the other's ice.
SameIce(r1, r2, v) ==
  /\ base[r1][v] = base[r2][v]
  /\ surface[r1][v] = surface[r2][v]
  /\ levelset[r1][v] = levelset[r2][v]

IsUpdateOf(r1, r2, v) ==
  /\ base[r1][v] = MigratedBase(r2, v)
  /\ surface[r1][v] = MigratedSurface(r2, v)
  /\ levelset[r1][v] = MigratedLevelset(r2, v)

Ahead(r1, r2) == pc[r1] = "transport" /\ pc[r2] = "migrate"

SharedIce ==
  \A r1, r2 \in Rank : \A v \in VerticesOn(r1) \cap VerticesOn(r2) :
    /\ Ahead(r1, r2) => IsUpdateOf(r1, r2, v)
    /\ ~Ahead(r1, r2) /\ ~Ahead(r2, r1) => SameIce(r1, r2, v)

PhaseInv == TypeOK /\ SamePhase /\ SharedIce

LEMMA PhaseInit == Init => PhaseInv
<1> SUFFICES ASSUME Init PROVE PhaseInv
  OBVIOUS
<1>1. TypeOK
  BY TypeInit
<1>2. \A r \in Rank : pc[r] = "transport"
  BY DEF Init
<1>3. ASSUME NEW r1 \in Rank, NEW r2 \in Rank, NEW v \in VerticesOn(r1) \cap VerticesOn(r2)
      PROVE  SameIce(r1, r2, v)
  BY DEF Init, SameIce
<1> QED BY <1>1, <1>2, <1>3 DEF PhaseInv, SamePhase, SharedIce, Together, Ahead

\* In a collective all the ranks do the same, so what they share stays the same if the
\* geometry is left alone.
LEMMA PhaseCollective ==
  ASSUME PhaseInv, CollectiveStep
  PROVE  /\ \A r1, r2 \in Rank : pc[r1] = pc[r2] /\ pc'[r1] = pc'[r2]
         /\ \A r1, r2 \in Rank : \A v \in VerticesOn(r1) \cap VerticesOn(r2) : SameIce(r1, r2, v)
<1>1. \A r1, r2 \in Rank : pc[r1] = pc[r2] /\ pc'[r1] = pc'[r2]
  BY DEF CollectiveStep, Transport, PotentialUngrounding, AssembleLevelset, AssembleNeighbors,
         AssembleFlips, Collective, Flipped
<1>2. \A r1, r2 \in Rank : ~Ahead(r1, r2)
  BY <1>1 DEF Ahead
<1> QED BY <1>1, <1>2 DEF PhaseInv, SharedIce

LEMMA PhaseTransport ==
  ASSUME PhaseInv, Transport, NEW r1 \in Rank, NEW r2 \in Rank,
         NEW v \in VerticesOn(r1) \cap VerticesOn(r2)
  PROVE  SameIce(r1, r2, v)'
<1>1. SameIce(r1, r2, v)
  BY PhaseCollective DEF CollectiveStep
<1>2. PICK sl \in SeaLevels, h \in NextThickness :
        /\ base' = [r \in Rank |-> [w \in VerticesOn(r) |-> TransportedBase(r, w, sl, h)]]
        /\ surface' = [r \in Rank |-> [w \in VerticesOn(r) |-> TransportedBase(r, w, sl, h) + h[w]]]
        /\ levelset' = levelset
  BY DEF Transport
<1>3. TransportedBase(r1, v, sl, h) = TransportedBase(r2, v, sl, h)
  BY <1>1 DEF SameIce, TransportedBase
<1> QED BY <1>1, <1>2, <1>3 DEF SameIce

\* An update changes the ice of one rank, and makes of it the update of the same ice
\* elsewhere.
LEMMA MigrateFrame ==
  ASSUME TypeOK, NEW r \in Rank, MigrateGroundingLine(r)
  PROVE  /\ pc[r] = "migrate" /\ pc'[r] = "transport"
         /\ \A q \in Rank \ {r} : /\ pc'[q] = pc[q]
                                  /\ base'[q] = base[q]
                                  /\ surface'[q] = surface[q]
                                  /\ levelset'[q] = levelset[q]
         /\ \A v \in VerticesOn(r) : /\ base'[r][v] = MigratedBase(r, v)
                                     /\ surface'[r][v] = MigratedSurface(r, v)
                                     /\ levelset'[r][v] = MigratedLevelset(r, v)
         /\ UNCHANGED <<style, sealevel, thickness, wants, vecphi, pending, phi, neighbors,
                        localflipped, shelf>>
<1>1. /\ DOMAIN base = Rank /\ DOMAIN surface = Rank /\ DOMAIN levelset = Rank
      /\ pc \in [Rank -> PC]
  BY DEF TypeOK, Inputs
<1> QED BY <1>1 DEF MigrateGroundingLine, Goto, flood

LEMMA SameUpdate ==
  ASSUME NEW r1, NEW r2, NEW v, SameIce(r1, r2, v)
  PROVE  /\ MigratedBase(r1, v) = MigratedBase(r2, v)
         /\ MigratedSurface(r1, v) = MigratedSurface(r2, v)
         /\ MigratedLevelset(r1, v) = MigratedLevelset(r2, v)
BY DEF SameIce, MigratedBase, MigratedSurface, MigratedLevelset, Grounding, TouchesBed, Lifts,
       KeepsLevelset

\* What rank q would make of its ice does not depend on the other ranks.
LEMMA UpdateOfOther ==
  ASSUME TypeOK, NEW r \in Rank, MigrateGroundingLine(r), NEW q \in Rank \ {r}, NEW v
  PROVE  /\ MigratedBase(q, v)' = MigratedBase(q, v)
         /\ MigratedSurface(q, v)' = MigratedSurface(q, v)
         /\ MigratedLevelset(q, v)' = MigratedLevelset(q, v)
<1>1. /\ base'[q] = base[q] /\ surface'[q] = surface[q] /\ levelset'[q] = levelset[q]
      /\ UNCHANGED <<style, sealevel, thickness, phi>>
  BY MigrateFrame
<1> QED BY <1>1 DEF MigratedBase, MigratedSurface, MigratedLevelset, Grounding, TouchesBed,
                    Lifts, KeepsLevelset, Flotation, Soft

LEMMA PhaseMigrate ==
  ASSUME PhaseInv, NEW r \in Rank, MigrateGroundingLine(r)
  PROVE  SamePhase' /\ SharedIce'
<1> USE DEF PhaseInv
<1>1. \A q \in Rank \ {r} : pc[q] \in {"migrate", "transport"} /\ pc'[q] = pc[q]
  <2>1. pc[r] = "migrate"
    BY MigrateFrame
  <2>2. \A q \in Rank : Together(pc[q], "migrate")
    BY <2>1 DEF SamePhase
  <2> QED BY <2>2, MigrateFrame DEF Together
<1>2. SamePhase'
  <2>1. \A q \in Rank : pc'[q] \in {"migrate", "transport"}
    BY <1>1, MigrateFrame
  <2> QED BY <2>1 DEF SamePhase, Together
\* The pairs of which r is one.
<1>3. ASSUME NEW q \in Rank \ {r}, NEW v \in VerticesOn(r) \cap VerticesOn(q)
      PROVE  /\ Ahead(r, q)' => IsUpdateOf(r, q, v)'
             /\ ~Ahead(q, r)'
             /\ ~Ahead(r, q)' => SameIce(r, q, v)' /\ SameIce(q, r, v)'
  <2>1. /\ base'[r][v] = MigratedBase(r, v)
        /\ surface'[r][v] = MigratedSurface(r, v)
        /\ levelset'[r][v] = MigratedLevelset(r, v)
    BY MigrateFrame
  <2>2. ~Ahead(q, r)'
    BY MigrateFrame DEF Ahead
  <2>3. CASE pc[q] = "migrate"
    <3>1. SameIce(r, q, v) /\ Ahead(r, q)'
      <4>1. pc[r] = "migrate"
        BY MigrateFrame
      <4>2. ~Ahead(r, q) /\ ~Ahead(q, r)
        BY <4>1, <2>3 DEF Ahead
      <4> QED BY <2>3, <4>2, MigrateFrame DEF SharedIce, Ahead
    <3> QED BY <2>1, <2>2, <3>1, SameUpdate, UpdateOfOther DEF IsUpdateOf
  <2>4. CASE pc[q] = "transport"
    <3>1. IsUpdateOf(q, r, v) /\ ~Ahead(r, q)'
      BY <2>4, MigrateFrame DEF SharedIce, Ahead
    <3>2. SameIce(r, q, v)' /\ SameIce(q, r, v)'
      BY <3>1, <2>1, MigrateFrame DEF IsUpdateOf, SameIce
    <3> QED BY <2>2, <3>1, <3>2
  <2> QED BY <1>1, <2>3, <2>4
<1>4. ASSUME NEW q1 \in Rank \ {r}, NEW q2 \in Rank \ {r},
             NEW v \in VerticesOn(q1) \cap VerticesOn(q2)
      PROVE  /\ Ahead(q1, q2)' => IsUpdateOf(q1, q2, v)'
             /\ ~Ahead(q1, q2)' /\ ~Ahead(q2, q1)' => SameIce(q1, q2, v)'
  <2>1. Ahead(q1, q2)' = Ahead(q1, q2) /\ Ahead(q2, q1)' = Ahead(q2, q1)
    BY <1>1 DEF Ahead
  <2>2. IsUpdateOf(q1, q2, v)' = IsUpdateOf(q1, q2, v)
    BY MigrateFrame, UpdateOfOther DEF IsUpdateOf
  <2>3. SameIce(q1, q2, v)' = SameIce(q1, q2, v)
    BY MigrateFrame DEF SameIce
  <2> QED BY <2>1, <2>2, <2>3 DEF SharedIce
<1>5. ASSUME NEW q1 \in Rank, NEW q2 \in Rank, NEW v \in VerticesOn(q1) \cap VerticesOn(q2)
      PROVE  /\ Ahead(q1, q2)' => IsUpdateOf(q1, q2, v)'
             /\ ~Ahead(q1, q2)' /\ ~Ahead(q2, q1)' => SameIce(q1, q2, v)'
  <2>1. CASE q1 = r /\ q2 = r
    BY <2>1, MigrateFrame DEF Ahead, SameIce
  <2>2. CASE q1 = r /\ q2 # r
    BY <2>2, <1>3
  <2>3. CASE q1 # r /\ q2 = r
    BY <2>3, <1>3
  <2>4. CASE q1 # r /\ q2 # r
    BY <2>4, <1>4
  <2> QED BY <2>1, <2>2, <2>3, <2>4
<1>6. SharedIce'
  BY <1>5 DEF SharedIce
<1> QED BY <1>2, <1>6

LEMMA PhasePropagate ==
  ASSUME PhaseInv, NEW r \in Rank, UpdatePotentialUngrounding(r)
  PROVE  SamePhase' /\ SharedIce'
<1> USE DEF PhaseInv
<1>1. /\ pc[r] = "propagate" /\ pc'[r] = "flips"
      /\ \A q \in Rank \ {r} : pc'[q] = pc[q]
  BY DEF UpdatePotentialUngrounding, Goto, TypeOK
<1>2. \A q \in Rank : pc[q] \in {"propagate", "flips"}
  BY <1>1 DEF SamePhase, Together
<1>3. \A q \in Rank : pc'[q] \in {"propagate", "flips"}
  BY <1>1, <1>2
<1>4. SamePhase'
  BY <1>3 DEF SamePhase, Together
<1>5. \A q1, q2 \in Rank : ~Ahead(q1, q2) /\ ~Ahead(q1, q2)'
  BY <1>2, <1>3 DEF Ahead
<1>6. \A q1, q2 \in Rank : \A v \in VerticesOn(q1) \cap VerticesOn(q2) : SameIce(q1, q2, v)'
  <2>1. UNCHANGED <<base, surface, levelset>>
    BY DEF UpdatePotentialUngrounding, geometry
  <2> QED BY <1>5, <2>1 DEF SharedIce, SameIce
<1>7. SharedIce'
  BY <1>5, <1>6 DEF SharedIce
<1> QED BY <1>4, <1>7

LEMMA PhaseNext == PhaseInv /\ [Next]_vars => PhaseInv'
<1> SUFFICES ASSUME PhaseInv, [Next]_vars PROVE PhaseInv'
  OBVIOUS
<1>1. TypeOK'
  BY TypeNext DEF PhaseInv
<1>2. CASE CollectiveStep
  <2>1. SamePhase' /\ \A r1, r2 \in Rank : ~Ahead(r1, r2)'
    BY <1>2, PhaseCollective DEF SamePhase, Together, Ahead
  <2>2. CASE Transport
    BY <1>1, <2>1, <2>2, PhaseTransport DEF PhaseInv, SharedIce
  <2>3. CASE ~Transport
    <3>1. UNCHANGED <<base, surface, levelset>>
      BY <1>2, <2>3 DEF CollectiveStep, PotentialUngrounding, AssembleLevelset, AssembleNeighbors,
                        AssembleFlips, geometry
    <3>2. \A r1, r2 \in Rank : \A v \in VerticesOn(r1) \cap VerticesOn(r2) : SameIce(r1, r2, v)'
      BY <1>2, <3>1, PhaseCollective DEF SameIce
    <3> QED BY <1>1, <2>1, <3>2 DEF PhaseInv, SharedIce
  <2> QED BY <2>2, <2>3
<1>3. ASSUME NEW r \in Rank, LocalStep(r)
      PROVE  PhaseInv'
  BY <1>1, <1>3, PhaseMigrate, PhasePropagate DEF LocalStep, PhaseInv
<1>4. CASE UNCHANGED vars
  BY <1>1, <1>4 DEF vars, PhaseInv, SamePhase, SharedIce, Ahead, SameIce, IsUpdateOf, MigratedBase,
     MigratedSurface, MigratedLevelset, Grounding, TouchesBed, Lifts, KeepsLevelset, Flotation, Soft
<1> QED BY <1>2, <1>3, <1>4 DEF Next

LEMMA PhaseInvariant == Spec => []PhaseInv
BY PhaseInit, PhaseNext, PTL DEF Spec

\* The ranks leave the flood after the same round, and ranks that share a vertex end
\* with the same ice there, for any partition of the mesh.
THEOREM RanksEndWithSameIce == Spec => []RanksAgree
<1>1. PhaseInv => RanksAgree
  <2> SUFFICES ASSUME PhaseInv PROVE RanksAgree
    OBVIOUS
  <2>1. ASSUME NEW r1 \in Rank, NEW r2 \in Rank,
               pc[r1] \notin {"propagate", "migrate"}, pc[r2] \notin {"propagate", "migrate"}
        PROVE  pc[r1] = pc[r2]
    <3>1. Together(pc[r1], pc[r2])
      BY DEF PhaseInv, SamePhase
    <3> QED BY <2>1, <3>1 DEF Together
  <2>2. ASSUME Done, NEW r1 \in Rank, NEW r2 \in Rank, NEW v \in VerticesOn(r1) \cap VerticesOn(r2)
        PROVE  SameIce(r1, r2, v)
    BY <2>2 DEF Done, PhaseInv, SharedIce, Ahead
  <2> QED BY <2>1, <2>2 DEF RanksAgree, SameIce
<1> QED BY <1>1, PhaseInvariant, PTL

(***************************************************************************)
(* The geometry at a vertex of a rank.                                     *)
(***************************************************************************)
RestsOrFloats(r, v) ==
  IF levelset[r][v] > 0 THEN base[r][v] = Bed[v] ELSE base[r][v] >= Bed[v]

InEquilibrium(r, v) ==
  base[r][v] = IF levelset[r][v] > 0 THEN Bed[v] ELSE HydroBase(sealevel[v], thickness[v])

GeometryInv ==
  /\ TypeOK
  /\ \A r \in Rank : \A v \in VerticesOn(r) :
       IF pc[r] = "transport" THEN RestsOrFloats(r, v) ELSE InEquilibrium(r, v)

LEMMA GeometryInit == Init => GeometryInv
<1> SUFFICES ASSUME Init PROVE GeometryInv
  OBVIOUS
<1>1. TypeOK /\ \A r \in Rank : pc[r] = "transport"
  BY TypeInit DEF Init
<1>2. ASSUME NEW r \in Rank, NEW v \in VerticesOn(r)
      PROVE  RestsOrFloats(r, v)
  <2>1. PICK f \in Masks :
          /\ levelset = [q \in Rank |-> [w \in VerticesOn(q) |-> f[w]]]
          /\ base = [q \in Rank |-> [w \in VerticesOn(q) |-> InitBase(w, f, sealevel, thickness)]]
    BY DEF Init
  <2>2. levelset[r][v] = f[v] /\ base[r][v] = InitBase(v, f, sealevel, thickness)
    BY <2>1
  <2>3. Bed[v] \in Int /\ HydroBase(sealevel[v], thickness[v]) \in Int
    BY <1>1, VertexTypes
  <2> QED BY <2>2, <2>3 DEF RestsOrFloats, InitBase
<1> QED BY <1>1, <1>2 DEF GeometryInv

\* Mass transport leaves grounded ice where it rests and sets floating ice afloat.
LEMMA TransportSetsAfloat ==
  ASSUME GeometryInv, Transport, NEW r \in Rank, NEW v \in VerticesOn(r)
  PROVE  InEquilibrium(r, v)' /\ pc'[r] # "transport"
<1>1. PICK sl \in SeaLevels, h \in NextThickness :
        /\ sealevel' = sl
        /\ thickness' = h
        /\ base' = [q \in Rank |-> [w \in VerticesOn(q) |-> TransportedBase(q, w, sl, h)]]
        /\ levelset' = levelset
  BY DEF Transport
<1>2. RestsOrFloats(r, v) /\ pc'[r] # "transport"
  BY DEF Transport, Collective, GeometryInv
<1>3. base'[r][v] = TransportedBase(r, v, sl, h)
  BY <1>1
<1> QED BY <1>1, <1>2, <1>3 DEF RestsOrFloats, InEquilibrium, TransportedBase

\* Ice that rests on the bed or is in equilibrium stays above the bed in every style.
LEMMA UpdateStaysAbove ==
  ASSUME TypeOK, NEW r \in Rank, NEW v \in VerticesOn(r), InEquilibrium(r, v)
  PROVE  IF MigratedLevelset(r, v) > 0 THEN MigratedBase(r, v) = Bed[v]
                                       ELSE MigratedBase(r, v) >= Bed[v]
<1> DEFINE H == HydroBase(sealevel[v], thickness[v])
<1>1. /\ Bed[v] \in Int /\ H \in Int /\ levelset[r][v] \in Int /\ phi[v] \in Int
      /\ Flotation(v) = Bed[v] - H
  BY VertexTypes DEF Flotation
<1>2. style \in {"SoftMigration", "AggressiveMigration", "SubelementMigration", "GroundingOnly"}
  BY GeometryAssumption DEF TypeOK
<1> HIDE DEF H
<1>3. CASE levelset[r][v] > 0
  <2>1. base[r][v] = Bed[v]
    BY <1>3 DEF InEquilibrium
  <2>2. ~Grounding(r, v) /\ ~TouchesBed(r, v)
    BY <1>1, <1>3, <2>1 DEF Grounding, TouchesBed
  <2>3. CASE Lifts(r, v)
    <3>1. H > Bed[v] /\ MigratedBase(r, v) = H
      BY <2>2, <2>3 DEF Lifts, MigratedBase, H
    <3>2. ~KeepsLevelset(r, v)
      BY <1>1, <2>3 DEF Lifts, KeepsLevelset, Soft
    <3>3. MigratedLevelset(r, v) = Bed[v] - H
      BY <1>1, <3>2 DEF MigratedLevelset
    <3> QED BY <1>1, <3>1, <3>3
  <2>4. CASE ~Lifts(r, v)
    <3>1. MigratedBase(r, v) = Bed[v]
      BY <2>1, <2>2, <2>4 DEF MigratedBase
    <3> QED BY <1>1, <3>1
  <2> QED BY <2>3, <2>4
<1>4. CASE ~(levelset[r][v] > 0)
  <2>1. base[r][v] = H /\ ~Lifts(r, v)
    BY <1>4 DEF InEquilibrium, Lifts, H
  <2>2. CASE Grounding(r, v) \/ TouchesBed(r, v)
    <3>1. MigratedBase(r, v) = Bed[v]
      BY <2>2 DEF MigratedBase
    <3> QED BY <1>1, <3>1
  <2>3. CASE ~Grounding(r, v) /\ ~TouchesBed(r, v)
    <3>1. H > Bed[v]
      BY <1>1, <1>4, <2>1, <2>3 DEF TouchesBed
    <3>2. MigratedBase(r, v) = H
      BY <2>1, <2>3 DEF MigratedBase
    <3>3. ~(MigratedLevelset(r, v) > 0)
      BY <1>1, <1>4, <3>1 DEF MigratedLevelset
    <3> QED BY <1>1, <3>1, <3>2, <3>3
  <2> QED BY <2>2, <2>3
<1> QED BY <1>3, <1>4

LEMMA GeometryNext == GeometryInv /\ [Next]_vars => GeometryInv'
<1> SUFFICES ASSUME GeometryInv, [Next]_vars PROVE GeometryInv'
  OBVIOUS
<1> USE DEF GeometryInv
<1>1. TypeOK /\ TypeOK'
  BY TypeNext
<1>2. CASE Transport
  BY <1>1, <1>2, TransportSetsAfloat
<1>3. ASSUME NEW r \in Rank, MigrateGroundingLine(r)
      PROVE  GeometryInv'
  <2>1. ASSUME NEW v \in VerticesOn(r)
        PROVE  RestsOrFloats(r, v)'
    <3>1. InEquilibrium(r, v)
      BY <1>3, MigrateFrame
    <3>2. base'[r][v] = MigratedBase(r, v) /\ levelset'[r][v] = MigratedLevelset(r, v)
      BY <1>1, <1>3, MigrateFrame
    <3> QED BY <1>1, <3>1, <3>2, UpdateStaysAbove DEF RestsOrFloats
  <2>2. ASSUME NEW q \in Rank \ {r}, NEW v \in VerticesOn(q)
        PROVE  /\ pc'[q] = pc[q]
               /\ RestsOrFloats(q, v)' = RestsOrFloats(q, v)
               /\ InEquilibrium(q, v)' = InEquilibrium(q, v)
    BY <1>1, <1>3, MigrateFrame DEF RestsOrFloats, InEquilibrium
  <2>3. pc'[r] = "transport"
    BY <1>1, <1>3, MigrateFrame
  <2> QED BY <1>1, <2>1, <2>2, <2>3
<1>4. ASSUME PotentialUngrounding \/ AssembleLevelset \/ AssembleNeighbors \/ AssembleFlips
             \/ (\E r \in Rank : UpdatePotentialUngrounding(r)) \/ UNCHANGED vars
      PROVE  GeometryInv'
  <2>1. UNCHANGED geometry
    BY <1>4 DEF PotentialUngrounding, AssembleLevelset, AssembleNeighbors, AssembleFlips,
                UpdatePotentialUngrounding, vars, geometry
  <2>2. \A r \in Rank : pc'[r] = "transport" <=> pc[r] = "transport"
    BY <1>4 DEF PotentialUngrounding, AssembleLevelset, AssembleNeighbors, AssembleFlips,
                UpdatePotentialUngrounding, Collective, Goto, vars, TypeOK
  <2>3. ASSUME NEW r \in Rank, NEW v \in VerticesOn(r)
        PROVE  /\ RestsOrFloats(r, v)' = RestsOrFloats(r, v)
               /\ InEquilibrium(r, v)' = InEquilibrium(r, v)
    BY <2>1 DEF geometry, RestsOrFloats, InEquilibrium
  <2> QED BY <1>1, <2>2, <2>3
<1> QED BY <1>2, <1>3, <1>4 DEF Next, CollectiveStep, LocalStep

LEMMA GeometryInvariant == Spec => []GeometryInv
BY GeometryInit, GeometryNext, PTL DEF Spec

\* After every time step grounded ice rests on the bed and floating ice is not below
\* it, in every style of migration, for any bedrock, sea and thickness.
THEOREM GeometryStaysConsistent == Spec => []GeometryIsConsistent
<1>1. GeometryInv => GeometryIsConsistent
  BY DEF GeometryInv, GeometryIsConsistent, Done, RestsOrFloats
<1> QED BY <1>1, GeometryInvariant, PTL

-----------------------------------------------------------------------------
(***************************************************************************)
(* The flood.                                                              *)
(***************************************************************************)
Flooding(r) == pc[r] \in {"neighbors", "propagate", "flips"}

\* Whatever is closed and contains the shelf contains all the ice that floats.
NotTooFar ==
  \A S \in SUBSET Vertex : shelf \subseteq S /\ ClosedIn(S, wants) => Floating(phi) \subseteq S

CountsAreOfThisRound(r) ==
  /\ pc[r] \in {"propagate", "flips"} => neighbors = {e \in Element : IsNodeOnShelfFromFlags(e)}
  /\ pc[r] = "flips" => pending[r] = Reached(r) /\ localflipped[r] = Cardinality(Flips(r))

FloodInv ==
  /\ PhaseInv
  /\ \A r \in Rank :
       /\ Flooding(r) => vecphi = phi
       /\ Flooding(r) \/ Flooded(r) => shelf \subseteq Floating(phi) /\ NotTooFar
       /\ CountsAreOfThisRound(r)
       /\ Flooded(r) => ClosedIn(Floating(phi), wants)

LEMMA FloodInit == Init => FloodInv
<1> SUFFICES ASSUME Init PROVE FloodInv
  OBVIOUS
<1>1. \A r \in Rank : pc[r] = "transport"
  BY DEF Init
<1> QED BY <1>1, PhaseInit DEF FloodInv, Flooding, Flooded, CountsAreOfThisRound

\* The flood begins with the ice that floats.
LEMMA FloodBegins ==
  ASSUME FloodInv, AssembleLevelset
  PROVE  FloodInv'
<1>1. PhaseInv'
  BY PhaseNext DEF FloodInv, Next, CollectiveStep
<1>2. \A r \in Rank : pc'[r] = "neighbors"
  BY DEF AssembleLevelset, Collective
<1>3. phi' = vecphi' /\ shelf' = Floating(vecphi')
  BY DEF AssembleLevelset
<1>4. shelf' = Floating(phi')
  BY <1>3
<1> QED BY <1>1, <1>2, <1>3, <1>4
        DEF FloodInv, Flooding, Flooded, NotTooFar, CountsAreOfThisRound, Floating

\* What the next copy of the vector floats: the ice that floated, and what the ranks
\* have turned in this round.
LEMMA NextFloating ==
  ASSUME TypeOK, AssembleFlips, vecphi = phi, \A r \in Rank : pending[r] = Reached(r)
  PROVE  Floating(phi)' = Floating(phi) \cup UNION {Reached(r) : r \in Rank}
<1>1. phi' = [v \in Vertex |-> IF \E r \in Rank : v \in pending[r] THEN -1 ELSE phi[v]]
  BY DEF AssembleFlips
<1>2. \A r \in Rank : Reached(r) \subseteq Vertex
  BY DEF Reached, TypeOK
<1>3. ASSUME NEW v \in Vertex
      PROVE  phi'[v] < 0 <=> phi[v] < 0 \/ \E r \in Rank : v \in Reached(r)
  BY <1>1
<1> QED BY <1>2, <1>3 DEF Floating

\* A round turns nothing that a closed set leaves out.
LEMMA ReachedIsNotTooFar ==
  ASSUME NEW S, Floating(phi) \subseteq S, ClosedIn(S, wants), NEW r \in Rank, TypeOK,
         neighbors = {e \in Element : IsNodeOnShelfFromFlags(e)}
  PROVE  Reached(r) \subseteq S
<1> SUFFICES ASSUME NEW v \in Reached(r) PROVE v \in S
  OBVIOUS
<1>1. PICK e \in ElementsOf[r] \cap neighbors : v \in VerticesOf[e] /\ v \in wants
  BY DEF Reached
<1>2. e \in Element /\ \E w \in VerticesOf[e] : phi[w] < 0
  BY <1>1 DEF IsNodeOnShelfFromFlags
<1>3. PICK w \in VerticesOf[e] : phi[w] < 0
  BY <1>2
<1>4. w \in Floating(phi)
  BY <1>2, <1>3, MeshAssumption DEF Floating
<1> QED BY <1>1, <1>2, <1>4 DEF ClosedIn

\* A round in which no vertex counts has turned none, and nothing is left to turn.
LEMMA NoFlipMeansClosed ==
  ASSUME TypeOK, neighbors = {e \in Element : IsNodeOnShelfFromFlags(e)},
         \A r \in Rank : Flips(r) = {}
  PROVE  /\ \A r \in Rank : Reached(r) \subseteq Floating(phi)
         /\ ClosedIn(Floating(phi), wants)
<1>1. ASSUME NEW e \in neighbors, NEW v \in VerticesOf[e] \cap wants
      PROVE  v \in Floating(phi)
  <2>1. PICK r \in Rank : e \in ElementsOf[r]
    BY DEF TypeOK, Element
  <2>2. <<e, v>> \notin Flips(r)
    OBVIOUS
  <2>3. v \in Vertex /\ phi[v] \in Int
    BY DEF TypeOK
  <2>4. ~(phi[v] >= 0)
    BY <2>1, <2>2 DEF Flips
  <2> QED BY <2>3, <2>4 DEF Floating
<1>2. \A r \in Rank : Reached(r) \subseteq Floating(phi)
  BY <1>1 DEF Reached
<1>3. ASSUME NEW e \in Element, VerticesOf[e] \cap Floating(phi) # {}
      PROVE  e \in neighbors
  BY <1>3 DEF Floating, IsNodeOnShelfFromFlags
<1> QED BY <1>1, <1>2, <1>3 DEF ClosedIn

LEMMA FloodRound ==
  ASSUME FloodInv, AssembleFlips
  PROVE  FloodInv'
<1> USE DEF FloodInv
<1>1. PhaseInv' /\ TypeOK
  BY PhaseNext DEF Next, CollectiveStep, PhaseInv
<1>2. \A r \in Rank : pc[r] = "flips"
  BY DEF AssembleFlips
<1>3. /\ vecphi = phi
      /\ shelf \subseteq Floating(phi)
      /\ NotTooFar
      /\ neighbors = {e \in Element : IsNodeOnShelfFromFlags(e)}
      /\ \A r \in Rank : pending[r] = Reached(r) /\ localflipped[r] = Cardinality(Flips(r))
  BY <1>2, RankFinite DEF Flooding, CountsAreOfThisRound
<1>4. Floating(phi)' = Floating(phi) \cup UNION {Reached(r) : r \in Rank}
  BY <1>1, <1>3, NextFloating
<1>5. vecphi' = phi' /\ shelf' = shelf /\ wants' = wants
  BY DEF AssembleFlips
<1>6. shelf' \subseteq Floating(phi)'
  BY <1>3, <1>4, <1>5
<1>7. NotTooFar'
  <2> SUFFICES ASSUME NEW S \in SUBSET Vertex, shelf' \subseteq S, ClosedIn(S, wants')
               PROVE  Floating(phi)' \subseteq S
    BY DEF NotTooFar
  <2>1. ClosedIn(S, wants)
    BY <1>5 DEF ClosedIn
  <2>2. Floating(phi) \subseteq S
    BY <1>3, <1>5, <2>1 DEF NotTooFar
  <2>3. \A r \in Rank : Reached(r) \subseteq S
    BY <1>1, <1>3, <2>1, <2>2, ReachedIsNotTooFar
  <2> QED BY <1>4, <2>2, <2>3
<1>8. ASSUME NEW r \in Rank, pc'[r] = "migrate"
      PROVE  ClosedIn(Floating(phi), wants)'
  <2>1. RunningSum(localflipped, NumProcs) = 0
    BY <1>8 DEF AssembleFlips, Flipped
  <2>2. \A q \in Rank : localflipped[q] = 0
    BY <1>1, <2>1, ZeroSum DEF TypeOK
  <2>3. \A q \in Rank : Flips(q) = {}
    BY <1>1, <1>3, <2>2, FlipsFinite, FS_EmptySet
  <2>4. /\ \A q \in Rank : Reached(q) \subseteq Floating(phi)
        /\ ClosedIn(Floating(phi), wants)
    BY <1>1, <1>3, <2>3, NoFlipMeansClosed
  <2>5. Floating(phi)' = Floating(phi)
    BY <1>4, <2>4
  <2> QED BY <1>5, <2>4, <2>5 DEF ClosedIn
<1>9. \A r \in Rank : pc'[r] \in {"neighbors", "migrate"}
  BY DEF AssembleFlips
<1> QED BY <1>1, <1>5, <1>6, <1>7, <1>8, <1>9 DEF Flooding, Flooded, CountsAreOfThisRound

LEMMA FloodNext == FloodInv /\ [Next]_vars => FloodInv'
<1> SUFFICES ASSUME FloodInv, [Next]_vars PROVE FloodInv'
  OBVIOUS
<1> USE DEF FloodInv
<1>1. PhaseInv' /\ TypeOK
  BY PhaseNext DEF PhaseInv
<1>2. CASE Transport
  <2>1. \A r \in Rank : pc'[r] = (IF Soft THEN "potential" ELSE "migrate")
    BY <1>2 DEF Transport, Collective
  <2>2. Soft' = Soft
    BY <1>2 DEF Transport, Soft
  <2>3. \A r \in Rank : ~Flooding(r)' /\ ~Flooded(r)'
                        /\ pc'[r] \notin {"propagate", "flips"}
    BY <2>1, <2>2 DEF Flooding, Flooded
  <2> QED BY <1>1, <2>3 DEF CountsAreOfThisRound
<1>3. CASE PotentialUngrounding
  <2>1. \A r \in Rank : pc'[r] = "levelset"
    BY <1>3 DEF PotentialUngrounding, Collective
  <2>2. \A r \in Rank : ~Flooding(r)' /\ ~Flooded(r)'
                        /\ pc'[r] \notin {"propagate", "flips"}
    BY <2>1 DEF Flooding, Flooded
  <2> QED BY <1>1, <2>2 DEF CountsAreOfThisRound
<1>4. CASE AssembleLevelset
  BY <1>4, FloodBegins
<1>5. CASE AssembleNeighbors
  <2>1. \A r \in Rank : pc[r] = "neighbors" /\ pc'[r] = "propagate"
    BY <1>5 DEF AssembleNeighbors, Collective
  <2>2. /\ neighbors' = {e \in Element : IsNodeOnShelfFromFlags(e)}
        /\ UNCHANGED <<wants, vecphi, phi, shelf>>
    BY <1>5 DEF AssembleNeighbors
  <2>3. \A r \in Rank : vecphi = phi /\ shelf \subseteq Floating(phi) /\ NotTooFar
    BY <2>1 DEF Flooding
  <2>4. \A r \in Rank : (vecphi = phi /\ shelf \subseteq Floating(phi) /\ NotTooFar)'
    BY <2>2, <2>3 DEF NotTooFar, Floating, ClosedIn
  <2>5. neighbors' = {e \in Element : IsNodeOnShelfFromFlags(e)'}
    BY <2>2 DEF IsNodeOnShelfFromFlags
  <2> QED BY <1>1, <2>1, <2>4, <2>5 DEF Flooding, Flooded, CountsAreOfThisRound
<1>6. CASE AssembleFlips
  BY <1>6, FloodRound
<1>7. ASSUME NEW r \in Rank, UpdatePotentialUngrounding(r)
      PROVE  FloodInv'
  <2>1. /\ pc[r] = "propagate" /\ pc'[r] = "flips"
        /\ \A q \in Rank \ {r} : pc'[q] = pc[q]
    BY <1>1, <1>7 DEF UpdatePotentialUngrounding, Goto, TypeOK
  <2>2. UNCHANGED <<style, wants, vecphi, phi, neighbors, shelf>>
    BY <1>7 DEF UpdatePotentialUngrounding, geometry
  <2>3. /\ pending'[r] = Reached(r) /\ localflipped'[r] = Cardinality(Flips(r))
        /\ \A q \in Rank \ {r} : pending'[q] = pending[q] /\ localflipped'[q] = localflipped[q]
    BY <1>1, <1>7 DEF UpdatePotentialUngrounding, TypeOK
  <2>4. \A q \in Rank : Reached(q)' = Reached(q) /\ Flips(q)' = Flips(q)
    BY <2>2 DEF Reached, Flips
  <2>5. \A e : IsNodeOnShelfFromFlags(e)' = IsNodeOnShelfFromFlags(e)
    BY <2>2 DEF IsNodeOnShelfFromFlags
  <2>6. NotTooFar' = NotTooFar /\ Floating(phi)' = Floating(phi)
        /\ ClosedIn(Floating(phi), wants)' = ClosedIn(Floating(phi), wants)
    BY <2>2 DEF NotTooFar, ClosedIn, Floating
  <2>7. \A q \in Rank : (Flooding(q)' => Flooding(q)) /\ (Flooded(q)' => Flooded(q))
    BY <2>1, <2>2 DEF Flooding, Flooded, Soft
  <2>8. \A q \in Rank : CountsAreOfThisRound(q)'
    <3>1. ASSUME NEW q \in Rank
          PROVE  pc'[q] \in {"propagate", "flips"} => pc[q] \in {"propagate", "flips"}
      BY <2>1
    <3>2. ASSUME NEW q \in Rank, pc'[q] = "flips"
          PROVE  pending'[q] = Reached(q) /\ localflipped'[q] = Cardinality(Flips(q))
      BY <2>1, <2>3, <3>2 DEF CountsAreOfThisRound
    <3> QED BY <2>2, <2>4, <2>5, <3>1, <3>2 DEF CountsAreOfThisRound
  <2> QED BY <1>1, <2>2, <2>6, <2>7, <2>8
<1>8. ASSUME (\E r \in Rank : MigrateGroundingLine(r)) \/ UNCHANGED vars
      PROVE  FloodInv'
  <2>1. UNCHANGED <<style, wants, vecphi, pending, phi, neighbors, localflipped, shelf>>
    BY <1>8 DEF MigrateGroundingLine, flood, vars
  <2>2. \A q \in Rank : pc'[q] = pc[q] \/ pc'[q] = "transport"
    BY <1>1, <1>8 DEF MigrateGroundingLine, Goto, vars, TypeOK
  <2>3. \A q \in Rank : Reached(q)' = Reached(q) /\ Flips(q)' = Flips(q)
    BY <2>1 DEF Reached, Flips
  <2>4. \A e : IsNodeOnShelfFromFlags(e)' = IsNodeOnShelfFromFlags(e)
    BY <2>1 DEF IsNodeOnShelfFromFlags
  <2>5. NotTooFar' = NotTooFar /\ Floating(phi)' = Floating(phi)
        /\ ClosedIn(Floating(phi), wants)' = ClosedIn(Floating(phi), wants)
    BY <2>1 DEF NotTooFar, ClosedIn, Floating
  <2>6. \A q \in Rank : (Flooding(q)' => Flooding(q)) /\ (Flooded(q)' => Flooded(q))
    BY <2>1, <2>2 DEF Flooding, Flooded, Soft
  <2>7. \A q \in Rank : CountsAreOfThisRound(q)'
    BY <2>1, <2>2, <2>3, <2>4 DEF CountsAreOfThisRound
  <2> QED BY <1>1, <2>1, <2>5, <2>6, <2>7
<1> QED BY <1>2, <1>3, <1>4, <1>5, <1>6, <1>7, <1>8 DEF Next, CollectiveStep, LocalStep

LEMMA FloodInvariant == Spec => []FloodInv
BY FloodInit, FloodNext, PTL DEF Spec

\* The flood of a soft migration reaches the smallest closed set of vertices that
\* contains the shelf, whatever the partition and the order of the ranks: never more,
\* and all of it once a rank updates its geometry.
THEOREM FloodReachesLeastClosedSet == Spec => []FloodIsLeastClosed
<1>1. FloodInv => FloodIsLeastClosed
  BY DEF FloodInv, FloodIsLeastClosed, NotTooFar, Flooding
<1> QED BY <1>1, FloodInvariant, PTL

-----------------------------------------------------------------------------
(***************************************************************************)
(* What a soft migration leaves behind.                                    *)
(***************************************************************************)
FloodIsOver == shelf \subseteq Floating(phi) /\ NotTooFar /\ ClosedIn(Floating(phi), wants)

WantsAreLight == \A v \in wants : - Draft[thickness[v]] > Bed[v]

FloatsOnShelf(r) == \A v \in VerticesOn(r) : levelset[r][v] < 0 => v \in shelf

Settled(r) ==
  /\ FloodIsOver
  /\ \A v \in VerticesOn(r) :
       /\ levelset[r][v] < 0 => phi[v] < 0
       /\ sealevel[v] = 0 /\ v \in wants /\ phi[v] < 0 => levelset[r][v] < 0

BeforeFirstStep == \A r \in Rank : pc[r] = "transport" /\ FloatsOnShelf(r)

SoftInv ==
  /\ FloodInv
  /\ \A r \in Rank :
       /\ pc[r] = "levelset" \/ Flooding(r) \/ Flooded(r) => WantsAreLight
       /\ Flooding(r) \/ Flooded(r) => FloatsOnShelf(r)
  /\ Soft => BeforeFirstStep \/ \A r \in Rank : pc[r] = "transport" => Settled(r)

LEMMA SoftInit == Init => SoftInv
<1> SUFFICES ASSUME Init PROVE SoftInv
  OBVIOUS
<1>1. FloodInv /\ \A r \in Rank : pc[r] = "transport"
  BY FloodInit DEF Init
<1>2. ASSUME NEW r \in Rank
      PROVE  FloatsOnShelf(r)
  <2>1. PICK f \in Masks : /\ levelset = [q \in Rank |-> [w \in VerticesOn(q) |-> f[w]]]
                           /\ shelf = Floating(f)
    BY DEF Init
  <2> QED BY <2>1, OwnVertices DEF FloatsOnShelf, Floating
<1> QED BY <1>1, <1>2 DEF SoftInv, BeforeFirstStep, Flooding, Flooded

\* A soft migration leaves afloat only what the flood has reached, and at the datum all
\* of it that wanted to float.
LEMMA UpdateSettles ==
  ASSUME TypeOK, Soft, NEW r \in Rank, NEW v \in VerticesOn(r),
         FloatsOnShelf(r), WantsAreLight, shelf \subseteq Floating(phi)
  PROVE  /\ MigratedLevelset(r, v) < 0 => phi[v] < 0
         /\ sealevel[v] = 0 /\ v \in wants /\ phi[v] < 0 => MigratedLevelset(r, v) < 0
<1> DEFINE H == HydroBase(sealevel[v], thickness[v])
<1>1. /\ Bed[v] \in Int /\ H \in Int /\ levelset[r][v] \in Int /\ phi[v] \in Int
      /\ sealevel[v] \in Int /\ Draft[thickness[v]] \in Nat
      /\ H = sealevel[v] - Draft[thickness[v]]
      /\ Flotation(v) = Bed[v] - H
  BY VertexTypes DEF Flotation
<1> HIDE DEF H
<1>2. ASSUME MigratedLevelset(r, v) < 0
      PROVE  phi[v] < 0
  <2>1. ~KeepsLevelset(r, v)
    BY <1>1, <1>2 DEF KeepsLevelset, MigratedLevelset
  <2>2. H > Bed[v]
    BY <1>1, <1>2, <2>1 DEF MigratedLevelset
  <2>3. CASE levelset[r][v] < 0
    BY <2>3 DEF FloatsOnShelf, Floating
  <2>4. CASE ~(levelset[r][v] < 0)
    <3>1. levelset[r][v] >= 0
      BY <1>1, <2>4
    <3>2. ~(phi[v] >= 0)
      BY <2>1, <2>2, <3>1 DEF KeepsLevelset, H
    <3> QED BY <1>1, <3>2
  <2> QED BY <2>3, <2>4
<1>3. ASSUME sealevel[v] = 0, v \in wants, phi[v] < 0
      PROVE  MigratedLevelset(r, v) < 0
  <2>1. - Draft[thickness[v]] > Bed[v]
    BY <1>3 DEF WantsAreLight
  <2>2. MigratedLevelset(r, v) = Flotation(v)
    BY <1>1, <1>3 DEF MigratedLevelset, KeepsLevelset
  <2> QED BY <1>1, <1>3, <2>1, <2>2
<1> QED BY <1>2, <1>3

LEMMA SoftMigrate ==
  ASSUME SoftInv, NEW r \in Rank, MigrateGroundingLine(r)
  PROVE  SoftInv'
<1> USE DEF SoftInv
<1>1. FloodInv' /\ FloodInv /\ TypeOK
  BY FloodNext DEF Next, LocalStep, FloodInv, PhaseInv
<1>2. /\ UNCHANGED <<style, sealevel, thickness, wants, phi, shelf>>
      /\ pc[r] = "migrate" /\ pc'[r] = "transport"
      /\ \A q \in Rank \ {r} : pc'[q] = pc[q] /\ levelset'[q] = levelset[q]
      /\ \A v \in VerticesOn(r) : levelset'[r][v] = MigratedLevelset(r, v)
  BY <1>1, MigrateFrame
<1>3. WantsAreLight' = WantsAreLight /\ FloodIsOver' = FloodIsOver /\ Soft' = Soft
  BY <1>2 DEF WantsAreLight, FloodIsOver, NotTooFar, ClosedIn, Floating, Soft
<1>4. ASSUME NEW q \in Rank \ {r}
      PROVE  /\ FloatsOnShelf(q)' = FloatsOnShelf(q)
             /\ Settled(q)' = Settled(q)
             /\ Flooding(q)' = Flooding(q) /\ Flooded(q)' = Flooded(q)
  BY <1>2, <1>3 DEF FloatsOnShelf, Settled, Flooding, Flooded
<1>5. ~Flooding(r)' /\ ~Flooded(r)'
  BY <1>2 DEF Flooding, Flooded
<1>6. ASSUME Soft
      PROVE  Settled(r)'
  <2>1. Flooded(r)
    BY <1>2, <1>6 DEF Flooded
  <2>2. FloodIsOver /\ WantsAreLight /\ FloatsOnShelf(r)
    BY <1>1, <2>1 DEF FloodInv, FloodIsOver
  <2>3. ASSUME NEW v \in VerticesOn(r)
        PROVE  /\ levelset'[r][v] < 0 => phi[v] < 0
               /\ sealevel[v] = 0 /\ v \in wants /\ phi[v] < 0 => levelset'[r][v] < 0
    BY <1>1, <1>2, <1>6, <2>2, UpdateSettles DEF FloodIsOver
  <2> QED BY <1>2, <1>3, <2>2, <2>3 DEF Settled
<1>7. Soft' => \A q \in Rank : pc'[q] = "transport" => Settled(q)'
  <2>1. ~BeforeFirstStep
    BY <1>2 DEF BeforeFirstStep
  <2> QED BY <1>2, <1>3, <1>4, <1>6, <2>1
<1>8. \A q \in Rank : /\ (pc[q] = "levelset" \/ Flooding(q) \/ Flooded(q) => WantsAreLight)'
                      /\ (Flooding(q) \/ Flooded(q) => FloatsOnShelf(q))'
  BY <1>2, <1>3, <1>4, <1>5
<1> QED BY <1>1, <1>7, <1>8

LEMMA SoftNext == SoftInv /\ [Next]_vars => SoftInv'
<1> SUFFICES ASSUME SoftInv, [Next]_vars PROVE SoftInv'
  OBVIOUS
<1> USE DEF SoftInv
<1>1. FloodInv' /\ TypeOK /\ PhaseInv
  BY FloodNext DEF FloodInv, PhaseInv
<1>2. CASE Transport
  <2>1. \A r \in Rank : pc'[r] = (IF Soft THEN "potential" ELSE "migrate")
    BY <1>2 DEF Transport, Collective
  <2>2. Soft' = Soft
    BY <1>2 DEF Transport, Soft
  <2>3. \A r \in Rank : ~Flooding(r)' /\ ~Flooded(r)' /\ pc'[r] \notin {"levelset", "transport"}
    BY <2>1, <2>2 DEF Flooding, Flooded
  <2> QED BY <1>1, <2>3
<1>3. CASE PotentialUngrounding
  <2>1. \A r \in Rank : pc'[r] = "levelset"
    BY <1>3 DEF PotentialUngrounding, Collective
  <2>2. WantsAreLight'
    BY <1>3 DEF PotentialUngrounding, WantsAreLight, WantsToFloat, geometry
  <2>3. \A r \in Rank : ~Flooding(r)' /\ ~Flooded(r)' /\ pc'[r] # "transport"
    BY <2>1 DEF Flooding, Flooded
  <2> QED BY <1>1, <2>2, <2>3
<1>4. CASE AssembleLevelset
  <2>1. /\ \A r \in Rank : pc[r] = "levelset" /\ pc'[r] = "neighbors"
        /\ UNCHANGED <<wants, thickness, levelset>>
        /\ vecphi' = [v \in Vertex |-> levelset[LastRank(v)][v]]
        /\ shelf' = Floating(vecphi')
    BY <1>4 DEF AssembleLevelset, Collective, geometry
  <2>2. WantsAreLight'
    BY <2>1, RankFinite DEF WantsAreLight
  <2>3. ASSUME NEW r \in Rank, NEW v \in VerticesOn(r), levelset[r][v] < 0
        PROVE  v \in shelf'
    <3>1. v \in Vertex /\ LastRank(v) \in Rank /\ v \in VerticesOn(LastRank(v))
      BY OwnVertices, LastRankHolds
    <3>2. levelset[LastRank(v)][v] = levelset[r][v]
      BY <1>1, <1>4, <3>1, PhaseCollective DEF CollectiveStep, SameIce
    <3> QED BY <2>1, <2>3, <3>1, <3>2 DEF Floating
  <2>4. \A r \in Rank : FloatsOnShelf(r)'
    BY <2>1, <2>3 DEF FloatsOnShelf
  <2> QED BY <1>1, <2>1, <2>2, <2>4
<1>5. ASSUME AssembleNeighbors \/ AssembleFlips \/ (\E r \in Rank : UpdatePotentialUngrounding(r))
      PROVE  SoftInv'
  <2>1. UNCHANGED <<style, thickness, levelset, wants, shelf>>
    BY <1>5 DEF AssembleNeighbors, AssembleFlips, UpdatePotentialUngrounding, geometry
  <2>2. \A r \in Rank : Flooding(r)
    <3>1. CASE AssembleNeighbors \/ AssembleFlips
      BY <3>1 DEF AssembleNeighbors, AssembleFlips, Collective, Flooding
    <3>2. ASSUME NEW q \in Rank, UpdatePotentialUngrounding(q), NEW r \in Rank
          PROVE  Flooding(r)
      <4>1. pc[q] = "propagate" /\ Together(pc[r], pc[q])
        BY <1>1, <3>2 DEF UpdatePotentialUngrounding, Goto, PhaseInv, SamePhase
      <4> QED BY <4>1 DEF Together, Flooding
    <3> QED BY <1>5, <3>1, <3>2
  <2>3. \A r \in Rank : pc'[r] # "transport"
    <3>1. CASE AssembleNeighbors \/ AssembleFlips
      BY <3>1 DEF AssembleNeighbors, AssembleFlips, Collective
    <3>2. ASSUME NEW q \in Rank, UpdatePotentialUngrounding(q), NEW r \in Rank
          PROVE  pc'[r] # "transport"
      BY <1>1, <2>2, <3>2 DEF UpdatePotentialUngrounding, Goto, TypeOK, Flooding
    <3> QED BY <1>5, <3>1, <3>2
  <2>4. WantsAreLight' /\ \A r \in Rank : FloatsOnShelf(r)'
    BY <2>1, <2>2, RankFinite DEF WantsAreLight, FloatsOnShelf
  <2> QED BY <1>1, <2>3, <2>4
<1>6. ASSUME NEW r \in Rank, MigrateGroundingLine(r)
      PROVE  SoftInv'
  BY <1>6, SoftMigrate
<1>7. CASE UNCHANGED vars
  BY <1>1, <1>7 DEF vars, WantsAreLight, FloatsOnShelf, Flooding, Flooded, Soft, BeforeFirstStep,
                    Settled, FloodIsOver, NotTooFar, ClosedIn, Floating
<1> QED BY <1>2, <1>3, <1>4, <1>5, <1>6, <1>7 DEF Next, CollectiveStep, LocalStep

LEMMA SoftInvariant == Spec => []SoftInv
BY SoftInit, SoftNext, PTL DEF Spec

\* What floats after a soft migration is what the flood has reached; a set that is
\* closed among the floating vertices is, cut down to these, closed among those that
\* wanted to float, so that the flood cannot have reached beyond it.
LEMMA SettledIsConnected ==
  ASSUME TypeOK, \A r \in Rank : Settled(r), \A v \in Vertex : sealevel[v] = 0,
         NEW S \in SUBSET Vertex, shelf \subseteq S, ClosedIn(S, FloatingNow)
  PROVE  FloatingNow \subseteq S
<1> DEFINE T == S \cap Floating(phi)
<1>1. FloodIsOver
  BY RankFinite DEF Settled
<1>2. FloatingNow \subseteq Floating(phi)
  BY DEF FloatingNow, Settled, Floating
<1>3. ASSUME NEW v \in wants \cap Floating(phi)
      PROVE  v \in FloatingNow
  <2>1. v \in Vertex /\ phi[v] < 0
    BY DEF Floating
  <2>2. PICK r \in Rank : v \in VerticesOn(r)
    BY <2>1, MeshAssumption
  <2> QED BY <2>1, <2>2 DEF FloatingNow, Settled
<1>4. ClosedIn(T, wants)
  <2> SUFFICES ASSUME NEW e \in Element, VerticesOf[e] \cap T # {}, NEW v \in VerticesOf[e] \cap wants
               PROVE  v \in T
    BY DEF ClosedIn
  <2>1. VerticesOf[e] \cap Floating(phi) # {} /\ VerticesOf[e] \cap S # {}
    OBVIOUS
  <2>2. v \in Floating(phi)
    BY <1>1, <2>1 DEF FloodIsOver, ClosedIn
  <2>3. v \in FloatingNow
    BY <1>3, <2>2
  <2>4. v \in S
    BY <2>1, <2>3 DEF ClosedIn
  <2> QED BY <2>2, <2>4
<1>5. T \in SUBSET Vertex /\ shelf \subseteq T
  BY <1>1 DEF FloodIsOver
<1>6. Floating(phi) \subseteq T
  <2> HIDE DEF T
  <2> QED BY <1>1, <1>4, <1>5 DEF FloodIsOver, NotTooFar
<1> QED BY <1>2, <1>6

\* With the sea at the datum, ice that floats after a soft migration is connected to
\* the ice shelf it started from by vertices that float, for any mesh and any partition.
THEOREM UngroundedIceIsConnected == Spec => []UngroundingIsConnectedAtDatum
<1>1. SoftInv => UngroundingIsConnectedAtDatum
  <2> SUFFICES ASSUME SoftInv, \A v \in Vertex : sealevel[v] = 0, Soft, Done,
                      NEW S \in SUBSET Vertex, shelf \subseteq S, ClosedIn(S, FloatingNow)
               PROVE  FloatingNow \subseteq S
    BY DEF UngroundingIsConnectedAtDatum, UngroundingIsConnected
  <2>1. TypeOK
    BY DEF SoftInv, FloodInv, PhaseInv
  <2>2. CASE BeforeFirstStep
    BY <2>2 DEF BeforeFirstStep, FloatsOnShelf, FloatingNow
  <2>3. CASE ~BeforeFirstStep
    <3>1. \A r \in Rank : Settled(r)
      BY <2>3 DEF SoftInv, Done
    <3> QED BY <2>1, <3>1, SettledIsConnected
  <2> QED BY <2>2, <2>3
<1> QED BY <1>1, SoftInvariant, PTL

=============================================================================

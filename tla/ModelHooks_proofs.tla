-------------------------- MODULE ModelHooks_proofs --------------------------
(***************************************************************************)
(* The references between the objects of a rank that the model processor   *)
(* makes from ids lead where they should: every node to its vertex, every  *)
(* element to its vertices and its nodes, every load to its node and to    *)
(* its elements.                                                           *)
(*                                                                         *)
(* The argument has four layers.  The ids that the Create functions give   *)
(* to nodes are one-to-one, across analyses, kinds of nodes (vertex,       *)
(* edge, face, bubble, pressure) and ranks (ModelProcessor_proofs).  An    *)
(* invariant over the programs says what a rank has of each analysis:      *)
(* which nodes, elements and loads, and which ids their hooks look for.    *)
(* At the end of a program the hooks are resolved in the lists of the      *)
(* rank, and an id finds the one object that was made for it.  Of the      *)
(* loads, the invariant also says on which side of a front, a rift or a    *)
(* bed face the elements are that they were made from.                     *)
(***************************************************************************)
EXTENDS ModelProcessor_proofs

-----------------------------------------------------------------------------
(***************************************************************************)
(* The tables of ids (Update) and the tables of points (the basis          *)
(* functions) list the same names in the same order.                       *)
(***************************************************************************)
Image(e, point) == {<<iomodel.mesh.elements[e][x[1]], x[2]>> : x \in {y \in point : y[2] # 0}}

ListsAs(sh, e, s, t, S, n, w) ==
  /\ w \in [1..n -> S] /\ s = [k \in 1..n |-> IdOf(sh, w[k])] /\ t = [k \in 1..n |-> t[k]]
  /\ \A k \in 1..n : Image(e, t[k]) = PointOf(sh, w[k])
  /\ \A nm \in S : \E k \in 1..n : w[k] = nm

Lists(sh, e, s, t, S) == \E n \in Nat : \E w : ListsAs(sh, e, s, t, S, n, w)

LEMMA ConcatOf ==
  ASSUME NEW n \in Nat, NEW m \in Nat, NEW s, NEW t, s = [k \in 1..n |-> s[k]], t = [k \in 1..m |-> t[k]]
  PROVE  s \o t = [k \in 1..(n + m) |-> IF k <= n THEN s[k] ELSE t[k - n]]
<1> DEFINE A == {s[k] : k \in 1..n} \cup {t[k] : k \in 1..m}
<1>1. s \in [1..n -> A] /\ t \in [1..m -> A]
  <2>1. \A k \in 1..n : s[k] \in A
    OBVIOUS
  <2>2. \A k \in 1..m : t[k] \in A
    OBVIOUS
  <2> HIDE DEF A
  <2>3. [k \in 1..n |-> s[k]] \in [1..n -> A] /\ [k \in 1..m |-> t[k]] \in [1..m -> A]
    BY <2>1, <2>2
  <2> QED BY <2>3
<1> HIDE DEF A
<1>2. s \in Seq(A) /\ t \in Seq(A)
  BY <1>1, SeqDef
<1>3. Len(s) = n /\ Len(t) = m
  <2>1. DOMAIN s = 1..Len(s) /\ Len(s) \in Nat /\ DOMAIN s = 1..n
    BY <1>1, <1>2, LenProperties
  <2>2. DOMAIN t = 1..Len(t) /\ Len(t) \in Nat /\ DOMAIN t = 1..m
    BY <1>1, <1>2, LenProperties
  <2> QED BY <2>1, <2>2
<1>4. /\ s \o t \in Seq(A) /\ Len(s \o t) = n + m
      /\ \A i \in 1..(n + m) : (s \o t)[i] = IF i <= n THEN s[i] ELSE t[i - n]
  BY <1>2, <1>3, ConcatProperties, ZenonT(60)
<1>5. s \o t = [k \in 1..(n + m) |-> (s \o t)[k]]
  <2>1. DOMAIN (s \o t) = 1..(n + m)
    BY <1>4, LenProperties
  <2>2. s \o t = [k \in DOMAIN (s \o t) |-> (s \o t)[k]]
    <3>1. s \o t \in [1..Len(s \o t) -> A]
      BY <1>4, LenProperties
    <3> QED BY <3>1
  <2> QED BY <2>1, <2>2
<1> QED BY <1>4, <1>5

LEMMA ListsJoin ==
  ASSUME NEW sh, NEW e, NEW s, NEW t, NEW S, Lists(sh, e, s, t, S),
         NEW u, NEW v, NEW U, Lists(sh, e, u, v, U)
  PROVE  Lists(sh, e, s \o u, t \o v, S \cup U)
<1>1. PICK n \in Nat : \E w : ListsAs(sh, e, s, t, S, n, w)
  BY DEF Lists
<1>2. PICK w : ListsAs(sh, e, s, t, S, n, w)
  BY <1>1
<1>3. PICK m \in Nat : \E x : ListsAs(sh, e, u, v, U, m, x)
  BY DEF Lists
<1>4. PICK x : ListsAs(sh, e, u, v, U, m, x)
  BY <1>3
<1> DEFINE y == [k \in 1..(n + m) |-> IF k <= n THEN w[k] ELSE x[k - n]]
<1>5. \A k \in 1..(n + m) : /\ k <= n => k \in 1..n
                            /\ ~(k <= n) => k - n \in 1..m
  OBVIOUS
<1>6. /\ \A k \in 1..n : w[k] \in S /\ s[k] = IdOf(sh, w[k]) /\ Image(e, t[k]) = PointOf(sh, w[k])
      /\ s = [k \in 1..n |-> s[k]] /\ t = [k \in 1..n |-> t[k]] /\ \A nm \in S : \E k \in 1..n : w[k] = nm
  BY <1>2 DEF ListsAs
<1>7. /\ \A k \in 1..m : x[k] \in U /\ u[k] = IdOf(sh, x[k]) /\ Image(e, v[k]) = PointOf(sh, x[k])
      /\ u = [k \in 1..m |-> u[k]] /\ v = [k \in 1..m |-> v[k]] /\ \A nm \in U : \E k \in 1..m : x[k] = nm
  BY <1>4 DEF ListsAs
<1>8. /\ s \o u = [k \in 1..(n + m) |-> IF k <= n THEN s[k] ELSE u[k - n]]
      /\ t \o v = [k \in 1..(n + m) |-> IF k <= n THEN t[k] ELSE v[k - n]]
  <2>1. s \o u = [k \in 1..(n + m) |-> IF k <= n THEN s[k] ELSE u[k - n]]
    BY <1>6, <1>7, ConcatOf
  <2>2. t \o v = [k \in 1..(n + m) |-> IF k <= n THEN t[k] ELSE v[k - n]]
    BY <1>6, <1>7, ConcatOf
  <2> QED BY <2>1, <2>2
<1>9. ASSUME NEW k \in 1..(n + m)
      PROVE  /\ y[k] \in S \cup U /\ (s \o u)[k] = IdOf(sh, y[k])
             /\ Image(e, (t \o v)[k]) = PointOf(sh, y[k])
  <2>1. CASE k <= n
    <3>1. y[k] = w[k] /\ (s \o u)[k] = s[k] /\ (t \o v)[k] = t[k] /\ k \in 1..n
      BY <1>5, <1>8, <2>1
    <3> QED BY <1>6, <3>1
  <2>2. CASE ~(k <= n)
    <3>1. y[k] = x[k - n] /\ (s \o u)[k] = u[k - n] /\ (t \o v)[k] = v[k - n] /\ k - n \in 1..m
      BY <1>5, <1>8, <2>2
    <3> QED BY <1>7, <3>1
  <2> QED BY <2>1, <2>2
<1>10. ASSUME NEW nm \in S \cup U
       PROVE  \E k \in 1..(n + m) : y[k] = nm
  <2>1. CASE nm \in S
    <3>1. PICK k \in 1..n : w[k] = nm
      BY <1>6, <2>1
    <3>2. k \in 1..(n + m) /\ k <= n
      OBVIOUS
    <3> QED BY <3>1, <3>2
  <2>2. CASE nm \in U
    <3>1. PICK k \in 1..m : x[k] = nm
      BY <1>7, <2>2
    <3>2. k + n \in 1..(n + m) /\ ~(k + n <= n) /\ (k + n) - n = k
      OBVIOUS
    <3> QED BY <3>1, <3>2
  <2> QED BY <2>1, <2>2
<1>11. y \in [1..(n + m) -> S \cup U]
  BY <1>9
<1>12. s \o u = [k \in 1..(n + m) |-> IdOf(sh, y[k])]
  <2>1. s \o u = [k \in 1..(n + m) |-> (s \o u)[k]]
    BY <1>8
  <2> HIDE DEF y
  <2> QED BY <1>9, <2>1
<1>13. t \o v = [k \in 1..(n + m) |-> (t \o v)[k]]
  BY <1>8
<1> HIDE DEF y
<1>14. ListsAs(sh, e, s \o u, t \o v, S \cup U, n + m, y)
  BY <1>9, <1>10, <1>11, <1>12, <1>13 DEF ListsAs
<1> QED BY <1>14 DEF Lists

LEMMA ListsSame ==
  ASSUME NEW sh, NEW e, NEW s, NEW t, NEW S, Lists(sh, e, s, t, S), NEW T, \A nm : nm \in S <=> nm \in T
  PROVE  Lists(sh, e, s, t, T)
<1>1. S = T
  OBVIOUS
<1> QED BY <1>1

\* What an element sees when a table lists its names.
LEMMA ListsFacts ==
  ASSUME NEW sh, NEW e, NEW s, NEW t, NEW S, Lists(sh, e, s, t, S)
  PROVE  /\ \E n \in Nat : DOMAIN s = 1..n /\ DOMAIN t = 1..n /\ s = [k \in 1..n |-> s[k]] /\ t = [k \in 1..n |-> t[k]]
         /\ \A k \in DOMAIN s : \E nm \in S : s[k] = IdOf(sh, nm) /\ Image(e, t[k]) = PointOf(sh, nm)
         /\ \A nm \in S : \E k \in DOMAIN s : s[k] = IdOf(sh, nm) /\ Image(e, t[k]) = PointOf(sh, nm)
<1>1. PICK n \in Nat : \E w : ListsAs(sh, e, s, t, S, n, w)
  BY DEF Lists
<1>2. PICK w : ListsAs(sh, e, s, t, S, n, w)
  BY <1>1
<1>3. /\ s = [k \in 1..n |-> s[k]] /\ t = [k \in 1..n |-> t[k]]
      /\ \A k \in 1..n : w[k] \in S /\ s[k] = IdOf(sh, w[k]) /\ Image(e, t[k]) = PointOf(sh, w[k])
      /\ \A nm \in S : \E k \in 1..n : w[k] = nm
  BY <1>2 DEF ListsAs
<1>4. DOMAIN s = 1..n /\ DOMAIN t = 1..n
  BY <1>3
<1> QED BY <1>3, <1>4

LEMMA ListsFrom ==
  ASSUME NEW sh, NEW e, NEW n \in Nat, NEW s, NEW t, NEW S, NEW w, ListsAs(sh, e, s, t, S, n, w)
  PROVE  Lists(sh, e, s, t, S)
  BY DEF Lists

CornerNames(e)        == {<<1, Place(e, p), 1>> : p \in 1..Nc}
EdgeNames(e, which, c) == {<<2, EdgeNo(e, which[k]), c>> : k \in DOMAIN which}
QuadNames(e, c)       == {<<3, FaceNo(e, k), c>> : k \in 3..5}
BubbleNames(e)        == {<<4, e, 1>>}
VertexPressures(e)    == {<<5, Place(e, p), 1>> : p \in 1..Nc}
OwnPressures(e)       == {<<5, e, p>> : p \in 1..Nc}

LEMMA ElementIs ==
  ASSUME Partitioned, NEW e \in 1..Nel
  PROVE  /\ DOMAIN iomodel.mesh.elements[e] = 1..Nc /\ Len(iomodel.mesh.elements[e]) = Nc /\ Nc \in {3, 4, 6}
         /\ \A p \in 1..Nc : Place(e, p) \in 1..Nv
<1>1. /\ Len(iomodel.mesh.elements[e]) = Nc /\ Nc \in {3, 4, 6}
      /\ \A p \in 1..Nc : Place(e, p) \in 1..Nv
  BY IoFacts DEF Nc
<1>2. IsMesh(iomodel.mesh)
  BY MeshIsKnown
<1>3. iomodel.mesh.elements \in Seq(Seq(1..iomodel.mesh.nv)) /\ e \in DOMAIN iomodel.mesh.elements
  BY <1>2 DEF IsMesh, Nel, NumberOfElements
<1>4. iomodel.mesh.elements[e] \in Seq(1..iomodel.mesh.nv)
  BY <1>3, ElementOfSeq
<1>5. DOMAIN iomodel.mesh.elements[e] = 1..Len(iomodel.mesh.elements[e])
  BY <1>4, LenProperties
<1> QED BY <1>1, <1>5

LEMMA ImageIs ==
  ASSUME NEW e, NEW T, \A y \in T : y[2] # 0
  PROVE  Image(e, T) = {<<Place(e, x[1]), x[2]>> : x \in T}
<1>1. {y \in T : y[2] # 0} = T
  OBVIOUS
<1> QED BY <1>1 DEF Image, Place

LEMMA ImageOfOne ==
  ASSUME NEW e, NEW p, NEW w, w # 0
  PROVE  Image(e, {<<p, w>>}) = {<<Place(e, p), w>>}
<1>1. \A y \in {<<p, w>>} : y[2] # 0
  OBVIOUS
<1>2. Image(e, {<<p, w>>}) = {<<Place(e, x[1]), x[2]>> : x \in {<<p, w>>}}
  BY <1>1, ImageIs
<1> QED BY <1>2

Two(x, y) == {x, y}
Four(x, y, u, v) == {x, y, u, v}

LEMMA ImageOfTwo ==
  ASSUME NEW e, NEW p, NEW w, w # 0, NEW q, NEW z, z # 0
  PROVE  Image(e, Two(<<p, w>>, <<q, z>>)) = {<<Place(e, p), w>>, <<Place(e, q), z>>}
<1> DEFINE T == {<<p, w>>, <<q, z>>}
<1>1. \A y \in T : y[2] # 0
  OBVIOUS
<1>2. \A x : x \in T <=> x = <<p, w>> \/ x = <<q, z>>
  OBVIOUS
<1>a. T = {<<p, w>>, <<q, z>>}
  OBVIOUS
<1> HIDE DEF T
<1>3. Image(e, T) = {<<Place(e, x[1]), x[2]>> : x \in T}
  BY <1>1, ImageIs
<1> DEFINE G(x) == <<Place(e, x[1]), x[2]>>
<1>4. \A u : u \in Image(e, T) <=> \E x \in T : u = G(x)
  BY <1>3
<1>b. G(<<p, w>>) = <<Place(e, p), w>> /\ G(<<q, z>>) = <<Place(e, q), z>>
  OBVIOUS
<1> HIDE DEF G
<1>5. \A u : u \in Image(e, T) <=> u = <<Place(e, p), w>> \/ u = <<Place(e, q), z>>
  BY <1>2, <1>4, <1>b
<1>6. Image(e, T) = {<<Place(e, p), w>>, <<Place(e, q), z>>}
  BY <1>5
<1> QED BY <1>6, <1>a DEF Two

LEMMA ImageOfFour ==
  ASSUME NEW e, NEW p, NEW q, NEW w, w # 0, NEW a, NEW b, NEW z, z # 0
  PROVE  Image(e, Four(<<p, w>>, <<q, w>>, <<a, z>>, <<b, z>>))
           = {<<Place(e, p), w>>, <<Place(e, q), w>>, <<Place(e, a), z>>, <<Place(e, b), z>>}
<1> DEFINE T == {<<p, w>>, <<q, w>>, <<a, z>>, <<b, z>>}
<1>1. \A y \in T : y[2] # 0
  OBVIOUS
<1>2. \A x : x \in T <=> x = <<p, w>> \/ x = <<q, w>> \/ x = <<a, z>> \/ x = <<b, z>>
  OBVIOUS
<1>a. T = {<<p, w>>, <<q, w>>, <<a, z>>, <<b, z>>}
  OBVIOUS
<1> HIDE DEF T
<1>3. Image(e, T) = {<<Place(e, x[1]), x[2]>> : x \in T}
  BY <1>1, ImageIs
<1> DEFINE G(x) == <<Place(e, x[1]), x[2]>>
<1>4. \A u : u \in Image(e, T) <=> \E x \in T : u = G(x)
  BY <1>3
<1>b. /\ G(<<p, w>>) = <<Place(e, p), w>> /\ G(<<q, w>>) = <<Place(e, q), w>>
      /\ G(<<a, z>>) = <<Place(e, a), z>> /\ G(<<b, z>>) = <<Place(e, b), z>>
  OBVIOUS
<1> HIDE DEF G
<1>5. \A u : u \in Image(e, T) <=> \/ u = <<Place(e, p), w>> \/ u = <<Place(e, q), w>>
                                   \/ u = <<Place(e, a), z>> \/ u = <<Place(e, b), z>>
  BY <1>2, <1>4, <1>b
<1>6. Image(e, T) = {<<Place(e, p), w>>, <<Place(e, q), w>>, <<Place(e, a), z>>, <<Place(e, b), z>>}
  BY <1>5
<1> QED BY <1>6, <1>a DEF Four

LEMMA CornerImage ==
  ASSUME NEW e, NEW p
  PROVE  Image(e, {<<p, 24>>}) = AtCorner(Place(e, p))
<1> DEFINE w == 24
<1>1. w # 0
  OBVIOUS
<1> HIDE DEF w
<1>2. Image(e, {<<p, w>>}) = {<<Place(e, p), w>>}
  BY <1>1, ImageOfOne, ZenonT(60)
<1> QED BY <1>2 DEF AtCorner, w

\* One node at each vertex.
LEMMA CornersListed ==
  ASSUME Sound, NEW sh, GoodShape(sh), sh.corner = 1, NEW e \in 1..Nel
  PROVE  Lists(sh, e, VertexIds(iomodel, e, 0), Corners(Nc), CornerNames(e))
<1>1. Partitioned
  BY DEF Sound
<1>2. /\ DOMAIN iomodel.mesh.elements[e] = 1..Nc /\ Nc \in Nat
      /\ \A p \in 1..Nc : Place(e, p) \in 1..Nv
  BY <1>1, ElementIs
<1> DEFINE w == [p \in 1..Nc |-> <<1, Place(e, p), 1>>]
<1> DEFINE s == VertexIds(iomodel, e, 0)
<1>3. s = [k \in 1..Nc |-> 0 + Place(e, k)]
  BY <1>2 DEF VertexIds, Place
<1>4. Nv \in Nat
  BY <1>1, IoFacts
<1> DEFINE t == Corners(Nc)
<1>5. t = [k \in 1..Nc |-> {<<k, 24>>}]
  BY DEF Corners
<1>6. w \in [1..Nc -> CornerNames(e)]
  BY DEF CornerNames
<1>7. ASSUME NEW k \in 1..Nc
      PROVE  s[k] = IdOf(sh, w[k]) /\ Image(e, t[k]) = PointOf(sh, w[k])
  <2>1. w[k] = <<1, Place(e, k), 1>> /\ w[k][1] = 1 /\ w[k][2] = Place(e, k) /\ w[k][3] = 1
    OBVIOUS
  <2>2. Place(e, k) \in Int
    BY <1>2, <1>4
  <2> HIDE DEF w
  <2>3. IdOf(sh, w[k]) = IdIn(0, sh.corner, Place(e, k), 1)
    BY <2>1 DEF IdOf, First, StrideOf
  <2>4. IdOf(sh, w[k]) = Place(e, k)
    BY <2>2, <2>3 DEF IdIn
  <2>5. s[k] = Place(e, k)
    <3> HIDE DEF s
    <3> QED BY <1>3, <2>2
  <2>6. Image(e, t[k]) = AtCorner(Place(e, k))
    BY <1>5, CornerImage
  <2>7. PointOf(sh, w[k]) = AtCorner(Place(e, k))
    BY <2>1 DEF PointOf
  <2> QED BY <2>4, <2>5, <2>6, <2>7
<1>8. \A nm \in CornerNames(e) : \E k \in 1..Nc : w[k] = nm
  BY DEF CornerNames
<1>9. s = [k \in 1..Nc |-> s[k]] /\ t = [k \in 1..Nc |-> t[k]]
  BY <1>3, <1>5
<1> HIDE DEF s, t, w
<1>a. s = [k \in 1..Nc |-> IdOf(sh, w[k])]
  BY <1>7, <1>9
<1>10. ListsAs(sh, e, s, t, CornerNames(e), Nc, w)
  BY <1>6, <1>7, <1>8, <1>9, <1>a DEF ListsAs
<1>11. Lists(sh, e, s, t, CornerNames(e))
  BY <1>2, <1>10, ListsFrom
<1> QED BY <1>11 DEF s, t

LEMMA CornersFirst ==
  ASSUME Partitioned, NEW sh, sh.corner = 1
  PROVE  First2(sh) = Nv
<1>1. Nv \in Nat
  BY IoFacts
<1> QED BY <1>1 DEF First2, Room

PointsOnEdges(sh, e, which, c, t) ==
  \A k \in DOMAIN which :
    Image(e, t[k]) = OnEdge(iomodel.edges[EdgeNo(e, which[k])].ends, EdgeWeight(sh, EdgeNo(e, which[k]), c))

\* The node c of each of some edges.
LEMMA EdgesListed ==
  ASSUME Sound, NEW sh, GoodShape(sh), sh.corner = 1, NEW e \in 1..Nel,
         NEW m \in Nat, NEW which \in [1..m -> DOMAIN Local], NEW c \in Nat,
         NEW t, t = [k \in 1..m |-> t[k]], PointsOnEdges(sh, e, which, c, t)
  PROVE  Lists(sh, e, EdgeIds(iomodel, e, which, sh.stride, c), t, EdgeNames(e, which, c))
<1>1. Partitioned
  BY DEF Sound
<1> DEFINE s == EdgeIds(iomodel, e, which, sh.stride, c)
<1> DEFINE w == [k \in 1..m |-> <<2, EdgeNo(e, which[k]), c>>]
<1>2. DOMAIN which = 1..m
  OBVIOUS
<1>3. s = [k \in 1..m |-> Nv + sh.stride * (EdgeNo(e, which[k]) - 1) + c]
  BY <1>2 DEF EdgeIds, EdgeNo, Nv
<1>4. w \in [1..m -> EdgeNames(e, which, c)] /\ \A nm \in EdgeNames(e, which, c) : \E k \in 1..m : w[k] = nm
  BY <1>2 DEF EdgeNames
<1>5. ASSUME NEW k \in 1..m
      PROVE  s[k] = IdOf(sh, w[k]) /\ Image(e, t[k]) = PointOf(sh, w[k])
  <2>1. w[k] = <<2, EdgeNo(e, which[k]), c>> /\ w[k][1] = 2 /\ w[k][2] = EdgeNo(e, which[k]) /\ w[k][3] = c
    OBVIOUS
  <2> HIDE DEF w
  <2>3. IdOf(sh, w[k]) = IdIn(First2(sh), sh.stride, EdgeNo(e, which[k]), c)
    BY <2>1 DEF IdOf, First, StrideOf
  <2>4. IdOf(sh, w[k]) = Nv + sh.stride * (EdgeNo(e, which[k]) - 1) + c
    BY <1>1, <2>3, CornersFirst DEF IdIn
  <2>5. s[k] = Nv + sh.stride * (EdgeNo(e, which[k]) - 1) + c
    <3> HIDE DEF s
    <3> QED BY <1>3
  <2>6. PointOf(sh, w[k]) = OnEdge(iomodel.edges[EdgeNo(e, which[k])].ends, EdgeWeight(sh, EdgeNo(e, which[k]), c))
    BY <2>1 DEF PointOf
  <2>7. Image(e, t[k]) = OnEdge(iomodel.edges[EdgeNo(e, which[k])].ends, EdgeWeight(sh, EdgeNo(e, which[k]), c))
    BY <1>2 DEF PointsOnEdges
  <2> QED BY <2>4, <2>5, <2>6, <2>7
<1>6. s = [k \in 1..m |-> s[k]]
  BY <1>3
<1> HIDE DEF s, w
<1>7. s = [k \in 1..m |-> IdOf(sh, w[k])]
  BY <1>5, <1>6
<1>8. ListsAs(sh, e, s, t, EdgeNames(e, which, c), m, w)
  BY <1>4, <1>5, <1>7 DEF ListsAs
<1>9. Lists(sh, e, s, t, EdgeNames(e, which, c))
  BY <1>8, ListsFrom
<1> QED BY <1>9 DEF s

PointsOnQuads(sh, e, c, t) ==
  \A k \in 1..3 : Image(e, t[k]) = OnQuad(iomodel.faces[FaceNo(e, k + 2)].vertices, QuadWeight(sh, c))

\* The node c of each quad of a prism.
LEMMA QuadsListed ==
  ASSUME Sound, NEW sh, GoodShape(sh), NEW e \in 1..Nel, NEW c \in Nat, NEW first, first = First3(sh),
         NEW t, t = [k \in 1..3 |-> t[k]], PointsOnQuads(sh, e, c, t)
  PROVE  Lists(sh, e, FaceIds(iomodel, e, first, sh.quad, c), t, QuadNames(e, c))
<1>1. Partitioned
  BY DEF Sound
<1> DEFINE s == FaceIds(iomodel, e, first, sh.quad, c)
<1> DEFINE w == [k \in 1..3 |-> <<3, FaceNo(e, k + 2), c>>]
<1>3. s = [k \in 1..3 |-> first + sh.quad * (FaceNo(e, k + 2) - 1) + c]
  BY DEF FaceIds, FaceNo
<1>4. w \in [1..3 -> QuadNames(e, c)] /\ \A nm \in QuadNames(e, c) : \E k \in 1..3 : w[k] = nm
  <2>1. \A k \in 1..3 : k + 2 \in 3..5
    OBVIOUS
  <2>2. \A k \in 3..5 : k - 2 \in 1..3 /\ (k - 2) + 2 = k
    OBVIOUS
  <2> QED BY <2>1, <2>2 DEF QuadNames
<1>5. ASSUME NEW k \in 1..3
      PROVE  s[k] = IdOf(sh, w[k]) /\ Image(e, t[k]) = PointOf(sh, w[k])
  <2>1. w[k] = <<3, FaceNo(e, k + 2), c>> /\ w[k][1] = 3 /\ w[k][2] = FaceNo(e, k + 2) /\ w[k][3] = c
    OBVIOUS
  <2> HIDE DEF w
  <2>3. IdOf(sh, w[k]) = IdIn(First3(sh), sh.quad, FaceNo(e, k + 2), c)
    BY <2>1 DEF IdOf, First, StrideOf
  <2>4. IdOf(sh, w[k]) = first + sh.quad * (FaceNo(e, k + 2) - 1) + c
    BY <2>3 DEF IdIn
  <2>5. s[k] = first + sh.quad * (FaceNo(e, k + 2) - 1) + c
    <3> HIDE DEF s
    <3> QED BY <1>3
  <2>6. PointOf(sh, w[k]) = OnQuad(iomodel.faces[FaceNo(e, k + 2)].vertices, QuadWeight(sh, c))
    BY <2>1 DEF PointOf
  <2>7. Image(e, t[k]) = OnQuad(iomodel.faces[FaceNo(e, k + 2)].vertices, QuadWeight(sh, c))
    BY DEF PointsOnQuads
  <2> QED BY <2>4, <2>5, <2>6, <2>7
<1>6. s = [k \in 1..3 |-> s[k]]
  BY <1>3
<1> HIDE DEF s, w
<1>7. s = [k \in 1..3 |-> IdOf(sh, w[k])]
  BY <1>5, <1>6
<1>8. ListsAs(sh, e, s, t, QuadNames(e, c), 3, w)
  BY <1>4, <1>5, <1>7 DEF ListsAs
<1>9. Lists(sh, e, s, t, QuadNames(e, c))
  <2>1. 3 \in Nat
    OBVIOUS
  <2> DEFINE n == 3
  <2>2. n \in Nat /\ ListsAs(sh, e, s, t, QuadNames(e, c), n, w)
    BY <1>8
  <2> HIDE DEF n
  <2> QED BY <2>2, ListsFrom
<1> QED BY <1>9 DEF s

LEMMA CentreImage ==
  ASSUME Partitioned, NEW e \in 1..Nel
  PROVE  Image(e, Centre(Nc)) = OnElement(e)
<1>1. Nc \in {3, 4, 6}
  BY ElementIs
<1>2. 24 \div 3 = 8 /\ 24 \div 4 = 6 /\ 24 \div 6 = 4
  OBVIOUS
<1> DEFINE u == 24 \div Nc
<1>3. u # 0
  BY <1>1, <1>2
<1>4. Centre(Nc) = {<<p, u>> : p \in 1..Nc} /\ OnElement(e) = {<<Place(e, p), u>> : p \in 1..Nc}
  BY DEF Centre, OnElement
<1> HIDE DEF u
<1> DEFINE T == Centre(Nc)
<1>5. \A y \in T : y[2] # 0
  BY <1>3, <1>4
<1>6. Image(e, T) = {<<Place(e, x[1]), x[2]>> : x \in T}
  <2> HIDE DEF T
  <2> QED BY <1>5, ImageIs
<1> DEFINE G(x) == <<Place(e, x[1]), x[2]>>
<1>7. Image(e, T) = {<<Place(e, p), u>> : p \in 1..Nc}
  <2>1. \A p \in 1..Nc : G(<<p, u>>) = <<Place(e, p), u>>
    OBVIOUS
  <2>2. Image(e, T) = {G(x) : x \in T}
    BY <1>6
  <2> HIDE DEF G, T
  <2>3. T = {<<p, u>> : p \in 1..Nc}
    BY <1>4 DEF T
  <2>4. Image(e, T) = {G(<<p, u>>) : p \in 1..Nc}
    BY <2>2, <2>3, ZenonT(60)
  <2> QED BY <2>1, <2>4
<1> QED BY <1>4, <1>7

\* The node at the centre of an element.
LEMMA BubbleListed ==
  ASSUME Sound, NEW sh, sh.bubble = 1, NEW e \in 1..Nel, NEW first \in Int, first = First4(sh)
  PROVE  Lists(sh, e, <<first + e>>, <<Centre(Nc)>>, BubbleNames(e))
<1>1. Partitioned
  BY DEF Sound
<1> DEFINE s == <<first + e>>
<1> DEFINE t == <<Centre(Nc)>>
<1> DEFINE w == [k \in 1..1 |-> <<4, e, 1>>]
<1>2. s = [k \in 1..1 |-> first + e] /\ t = [k \in 1..1 |-> Centre(Nc)]
  OBVIOUS
<1>3. w \in [1..1 -> BubbleNames(e)] /\ \A nm \in BubbleNames(e) : \E k \in 1..1 : w[k] = nm
  BY DEF BubbleNames
<1>4. Nel \in Nat /\ e \in Int
  BY <1>1, IoFacts
<1>5. ASSUME NEW k \in 1..1
      PROVE  s[k] = IdOf(sh, w[k]) /\ Image(e, t[k]) = PointOf(sh, w[k])
  <2>1. w[k] = <<4, e, 1>> /\ w[k][1] = 4 /\ w[k][2] = e /\ w[k][3] = 1
    OBVIOUS
  <2> HIDE DEF w
  <2>3. IdOf(sh, w[k]) = IdIn(First4(sh), sh.bubble, e, 1)
    BY <2>1 DEF IdOf, First, StrideOf
  <2>4. IdOf(sh, w[k]) = first + e
    BY <1>4, <2>3 DEF IdIn
  <2>5. s[k] = first + e /\ t[k] = Centre(Nc)
    <3> HIDE DEF s, t
    <3> QED BY <1>2
  <2>6. PointOf(sh, w[k]) = OnElement(e)
    BY <2>1 DEF PointOf
  <2>7. Image(e, t[k]) = OnElement(e)
    BY <1>1, <2>5, CentreImage
  <2> QED BY <2>4, <2>5, <2>6, <2>7
<1>6. s = [k \in 1..1 |-> s[k]] /\ t = [k \in 1..1 |-> t[k]]
  BY <1>2
<1> HIDE DEF s, t, w
<1>7. s = [k \in 1..1 |-> IdOf(sh, w[k])]
  BY <1>5, <1>6
<1> DEFINE n == 1
<1>8. n \in Nat /\ ListsAs(sh, e, s, t, BubbleNames(e), n, w)
  BY <1>3, <1>5, <1>6, <1>7 DEF ListsAs
<1> HIDE DEF n
<1>9. Lists(sh, e, s, t, BubbleNames(e))
  BY <1>8, ListsFrom
<1> QED BY <1>9 DEF s, t

\* The pressure at the vertices.
LEMMA PressuresListed ==
  ASSUME Sound, NEW sh, sh.press = "vertex", NEW e \in 1..Nel, NEW first \in Int, first = First5(sh)
  PROVE  Lists(sh, e, VertexIds(iomodel, e, first), Corners(Nc), VertexPressures(e))
<1>1. Partitioned
  BY DEF Sound
<1>2. /\ DOMAIN iomodel.mesh.elements[e] = 1..Nc /\ Nc \in Nat
      /\ \A p \in 1..Nc : Place(e, p) \in 1..Nv
  BY <1>1, ElementIs
<1> DEFINE w == [p \in 1..Nc |-> <<5, Place(e, p), 1>>]
<1> DEFINE s == VertexIds(iomodel, e, first)
<1>3. s = [k \in 1..Nc |-> first + Place(e, k)]
  BY <1>2 DEF VertexIds, Place
<1>4. Nv \in Nat
  BY <1>1, IoFacts
<1> DEFINE t == Corners(Nc)
<1>5. t = [k \in 1..Nc |-> {<<k, 24>>}]
  BY DEF Corners
<1>6. w \in [1..Nc -> VertexPressures(e)]
  BY DEF VertexPressures
<1>7. ASSUME NEW k \in 1..Nc
      PROVE  s[k] = IdOf(sh, w[k]) /\ Image(e, t[k]) = PointOf(sh, w[k])
  <2>1. w[k] = <<5, Place(e, k), 1>> /\ w[k][1] = 5 /\ w[k][2] = Place(e, k) /\ w[k][3] = 1
    OBVIOUS
  <2>2. Place(e, k) \in Int
    BY <1>2, <1>4
  <2> HIDE DEF w
  <2>3. IdOf(sh, w[k]) = IdIn(First5(sh), 1, Place(e, k), 1)
    BY <2>1 DEF IdOf, First, StrideOf
  <2>4. IdOf(sh, w[k]) = first + Place(e, k)
    BY <2>2, <2>3 DEF IdIn
  <2>5. s[k] = first + Place(e, k)
    <3> HIDE DEF s
    <3> QED BY <1>3
  <2>6. Image(e, t[k]) = AtCorner(Place(e, k))
    BY <1>5, CornerImage
  <2>7. PointOf(sh, w[k]) = AtCorner(Place(e, k))
    BY <2>1 DEF PointOf
  <2> QED BY <2>4, <2>5, <2>6, <2>7
<1>8. \A nm \in VertexPressures(e) : \E k \in 1..Nc : w[k] = nm
  BY DEF VertexPressures
<1>9. s = [k \in 1..Nc |-> s[k]] /\ t = [k \in 1..Nc |-> t[k]]
  BY <1>3, <1>5
<1> HIDE DEF s, t, w
<1>a. s = [k \in 1..Nc |-> IdOf(sh, w[k])]
  BY <1>7, <1>9
<1>10. ListsAs(sh, e, s, t, VertexPressures(e), Nc, w)
  BY <1>6, <1>7, <1>8, <1>9, <1>a DEF ListsAs
<1>11. Lists(sh, e, s, t, VertexPressures(e))
  BY <1>2, <1>10, ListsFrom
<1> QED BY <1>11 DEF s, t

\* The nodes at its corners that no other element has.
LEMMA OwnListed ==
  ASSUME Sound, NEW sh, sh.press = "own", NEW e \in 1..Nel, NEW first \in Int, first = First5(sh)
  PROVE  Lists(sh, e, OwnIds(iomodel, e, first), Corners(Nc), OwnPressures(e))
<1>1. Partitioned
  BY DEF Sound
<1>2. Len(iomodel.mesh.elements[e]) = Nc /\ Nc \in Nat
  BY <1>1, ElementIs
<1> DEFINE w == [p \in 1..Nc |-> <<5, e, p>>]
<1> DEFINE s == OwnIds(iomodel, e, first)
<1>3. s = [k \in 1..Nc |-> first + Nc * (e - 1) + k]
  BY <1>2 DEF OwnIds
<1> DEFINE t == Corners(Nc)
<1>5. t = [k \in 1..Nc |-> {<<k, 24>>}]
  BY DEF Corners
<1>6. w \in [1..Nc -> OwnPressures(e)]
  BY DEF OwnPressures
<1>7. ASSUME NEW k \in 1..Nc
      PROVE  s[k] = IdOf(sh, w[k]) /\ Image(e, t[k]) = PointOf(sh, w[k])
  <2>1. w[k] = <<5, e, k>> /\ w[k][1] = 5 /\ w[k][2] = e /\ w[k][3] = k
    OBVIOUS
  <2> HIDE DEF w
  <2>3. IdOf(sh, w[k]) = IdIn(First5(sh), Nc, e, k)
    BY <2>1 DEF IdOf, First, StrideOf
  <2>4. IdOf(sh, w[k]) = first + Nc * (e - 1) + k
    BY <2>3 DEF IdIn
  <2>5. s[k] = first + Nc * (e - 1) + k
    <3> HIDE DEF s
    <3> QED BY <1>3
  <2>6. Image(e, t[k]) = AtCorner(Place(e, k))
    BY <1>5, CornerImage
  <2>7. PointOf(sh, w[k]) = AtCorner(Place(e, k))
    BY <2>1 DEF PointOf
  <2> QED BY <2>4, <2>5, <2>6, <2>7
<1>8. \A nm \in OwnPressures(e) : \E k \in 1..Nc : w[k] = nm
  BY DEF OwnPressures
<1>9. s = [k \in 1..Nc |-> s[k]] /\ t = [k \in 1..Nc |-> t[k]]
  BY <1>3, <1>5
<1> HIDE DEF s, t, w
<1>a. s = [k \in 1..Nc |-> IdOf(sh, w[k])]
  BY <1>7, <1>9
<1>10. ListsAs(sh, e, s, t, OwnPressures(e), Nc, w)
  BY <1>6, <1>7, <1>8, <1>9, <1>a DEF ListsAs
<1>11. Lists(sh, e, s, t, OwnPressures(e))
  BY <1>2, <1>10, ListsFrom
<1> QED BY <1>11 DEF s, t

LEMMA LevelImage ==
  ASSUME Sound, NEW sh, NEW e \in 1..Nel, NEW k \in DOMAIN Local, Local[k][3] = 1, NEW c
  PROVE  Image(e, Between(Local[k][1], Local[k][2]))
           = OnEdge(iomodel.edges[EdgeNo(e, k)].ends, EdgeWeight(sh, EdgeNo(e, k), c))
<1>1. Partitioned
  BY DEF Sound
<1> DEFINE i == EdgeNo(e, k)
<1> DEFINE w == 12
<1>2. iomodel.edges[i].ends = {End(e, k, 1), End(e, k, 2)}
  BY <1>1, EdgeNumbers
<1>3. EdgeWeight(sh, i, c) = w
  BY EdgeMarkers DEF EdgeWeight
<1>4. w # 0 /\ 24 - w = w
  OBVIOUS
<1>5. Between(Local[k][1], Local[k][2]) = Two(<<Local[k][1], w>>, <<Local[k][2], w>>)
  BY DEF Between, Two
<1> HIDE DEF w, i
<1>6. Image(e, Two(<<Local[k][1], w>>, <<Local[k][2], w>>)) = {<<End(e, k, 1), w>>, <<End(e, k, 2), w>>}
  BY <1>4, ImageOfTwo DEF End
<1>7. OnEdge(iomodel.edges[i].ends, w) = {<<v, w>> : v \in iomodel.edges[i].ends}
  BY <1>4 DEF OnEdge
<1>8. OnEdge(iomodel.edges[i].ends, w) = {<<End(e, k, 1), w>>, <<End(e, k, 2), w>>}
  BY <1>2, <1>7
<1> QED BY <1>3, <1>5, <1>6, <1>8 DEF i

LEMMA UprightImage ==
  ASSUME Sound, Kind = "penta", NEW e \in 1..Nel, NEW k \in 1..3, NEW w \in 1..23, NEW T,
         T = {<<k, 24 - w>>, <<k + 3, w>>}
  PROVE  Image(e, T) = OnEdge(iomodel.edges[EdgeNo(e, k)].ends, w)
<1>1. Partitioned
  BY DEF Sound
<1>2. k \in DOMAIN Local /\ Local[k][1] = k /\ Local[k][2] = k + 3 /\ Local[k][3] = 2
  BY LocalFacts
<1>3. iomodel.edges[EdgeNo(e, k)].ends = {Place(e, k), Place(e, k + 3)}
  BY <1>1, <1>2, EdgeNumbers DEF End
<1>4. Place(e, k + 3) = Place(e, k) + Layer /\ Layer \in Nat /\ Layer > 0 /\ Nc = 6
  BY LayerFacts
<1>5. Place(e, k) \in 1..Nv /\ Place(e, k + 3) \in 1..Nv /\ Nv \in Nat
  <2>1. k \in 1..Nc /\ k + 3 \in 1..Nc
    BY <1>4
  <2>2. \A p \in 1..Nc : Place(e, p) \in 1..Nv
    BY <1>1, ElementIs
  <2>3. Nv \in Nat
    BY <1>1, IoFacts
  <2> QED BY <2>1, <2>2, <2>3
<1>6. Place(e, k) \in Nat /\ Place(e, k + 3) \in Nat /\ Place(e, k) < Place(e, k + 3)
  BY <1>4, <1>5
<1>7. OnEdge({Place(e, k), Place(e, k + 3)}, w) = {<<Place(e, k), 24 - w>>, <<Place(e, k + 3), w>>}
  BY <1>6, OnEdgeIs
<1>8. w # 0 /\ 24 - w # 0
  OBVIOUS
<1>9. Image(e, T) = {<<Place(e, k), 24 - w>>, <<Place(e, k + 3), w>>}
  <2> DEFINE u == 24 - w
  <2> DEFINE q == k + 3
  <2>1. u # 0 /\ T = Two(<<k, u>>, <<q, w>>) /\ w # 0
    BY <1>8 DEF Two
  <2> HIDE DEF u, q
  <2>2. Image(e, Two(<<k, u>>, <<q, w>>)) = {<<Place(e, k), u>>, <<Place(e, q), w>>}
    BY <2>1, ImageOfTwo
  <2>3. Image(e, T) = {<<Place(e, k), u>>, <<Place(e, q), w>>}
    BY <2>1, <2>2
  <2> QED BY <2>3 DEF u, q
<1> QED BY <1>3, <1>7, <1>9

LEMMA OnSideIs ==
  ASSUME NEW k \in 1..3, NEW f \in 1..3
  PROVE  OnSide(k, k, f) = {<<k, 24 - 6 * f>>, <<k + 3, 6 * f>>} /\ 6 * f \in 1..23
<1>1. 6 * (4 - f) = 24 - 6 * f /\ 6 * f \in 1..23
  OBVIOUS
<1>2. OnSide(k, k, f) = {<<v, 6 * (4 - f)>> : v \in {k, k}} \cup {<<v + 3, 6 * f>> : v \in {k, k}}
  BY DEF OnSide
<1> DEFINE x == 6 * (4 - f)
<1> DEFINE y == 6 * f
<1> HIDE DEF x, y
<1>3. OnSide(k, k, f) = {<<v, x>> : v \in {k, k}} \cup {<<v + 3, y>> : v \in {k, k}}
  BY <1>2 DEF x, y
<1>4. {<<v, x>> : v \in {k, k}} = {<<k, x>>} /\ {<<v + 3, y>> : v \in {k, k}} = {<<k + 3, y>>}
  OBVIOUS
<1>5. OnSide(k, k, f) = {<<k, x>>, <<k + 3, y>>}
  BY <1>3, <1>4
<1> QED BY <1>1, <1>5 DEF x, y

LEMMA OnQuadIs ==
  ASSUME Kind = "penta", Sound, NEW a \in Nat, NEW b \in Nat, a - b < Layer, b - a < Layer, NEW w
  PROVE  OnQuad({a, b, a + Layer, b + Layer}, w)
           = {<<a, 12 - w>>, <<b, 12 - w>>, <<a + Layer, w>>, <<b + Layer, w>>}
<1>1. Layer \in Nat /\ Layer > 0
  BY LayerFacts
<1> DEFINE V == {a, b, a + Layer, b + Layer}
<1> DEFINE G(v) == <<v, IF v + Layer \in V THEN 12 - w ELSE w>>
<1>2. OnQuad(V, w) = {G(v) : v \in V}
  BY DEF OnQuad
<1>3. a + Layer \in V /\ b + Layer \in V
  OBVIOUS
<1>4. a + Layer + Layer \notin V
  BY <1>1
<1>5. b + Layer + Layer \notin V
  BY <1>1
<1>6. G(a) = <<a, 12 - w>> /\ G(b) = <<b, 12 - w>>
  BY <1>3
<1>7. G(a + Layer) = <<a + Layer, w>> /\ G(b + Layer) = <<b + Layer, w>>
  BY <1>4, <1>5
<1>8. V = {a, b, a + Layer, b + Layer}
  OBVIOUS
<1> HIDE DEF G, V
<1>9. OnQuad(V, w) = {G(a), G(b), G(a + Layer), G(b + Layer)}
  BY <1>2, <1>8
<1> QED BY <1>6, <1>7, <1>8, <1>9

LEMMA QuadImage ==
  ASSUME Sound, Kind = "penta", NEW e \in 1..Nel, NEW k \in 3..5, NEW p \in 1..3, NEW q \in 1..3, p # q,
         LocalFaces(Kind)[k] = {p, q, p + 3, q + 3}, NEW f \in 1..3
  PROVE  Image(e, OnSide(p, q, f)) = OnQuad(iomodel.faces[FaceNo(e, k)].vertices, 3 * f)
<1>1. Partitioned
  BY DEF Sound
<1> DEFINE x == 3 * (4 - f)
<1> DEFINE y == 3 * f
<1>2. x # 0 /\ y # 0 /\ x = 12 - y
  OBVIOUS
<1> HIDE DEF x, y
<1>3. OnSide(p, q, f) = Four(<<p, x>>, <<q, x>>, <<p + 3, y>>, <<q + 3, y>>)
  <2>1. OnSide(p, q, f) = {<<v, x>> : v \in {p, q}} \cup {<<v + 3, y>> : v \in {p, q}}
    BY DEF OnSide, x, y
  <2>2. {<<v, x>> : v \in {p, q}} = {<<p, x>>, <<q, x>>}
    OBVIOUS
  <2>3. {<<v + 3, y>> : v \in {p, q}} = {<<p + 3, y>>, <<q + 3, y>>}
    OBVIOUS
  <2> QED BY <2>1, <2>2, <2>3 DEF Four
<1>4. Image(e, OnSide(p, q, f)) = {<<Place(e, p), x>>, <<Place(e, q), x>>, <<Place(e, p + 3), y>>, <<Place(e, q + 3), y>>}
  <2>1. Image(e, Four(<<p, x>>, <<q, x>>, <<p + 3, y>>, <<q + 3, y>>))
          = {<<Place(e, p), x>>, <<Place(e, q), x>>, <<Place(e, p + 3), y>>, <<Place(e, q + 3), y>>}
    BY <1>2, ImageOfFour
  <2> QED BY <1>3, <2>1
<1>5. /\ Place(e, p + 3) = Place(e, p) + Layer /\ Place(e, q + 3) = Place(e, q) + Layer
      /\ Place(e, p) - Place(e, q) < Layer /\ Place(e, q) - Place(e, p) < Layer /\ Nc = 6
  BY LayerFacts
<1>6. Place(e, p) \in Nat /\ Place(e, q) \in Nat
  <2>1. p \in 1..Nc /\ q \in 1..Nc
    BY <1>5
  <2>2. \A v \in 1..Nc : Place(e, v) \in 1..Nv
    BY <1>1, ElementIs
  <2>3. Nv \in Nat
    BY <1>1, IoFacts
  <2> QED BY <2>1, <2>2, <2>3
<1>7. OnQuad({Place(e, p), Place(e, q), Place(e, p) + Layer, Place(e, q) + Layer}, y)
        = {<<Place(e, p), 12 - y>>, <<Place(e, q), 12 - y>>, <<Place(e, p) + Layer, y>>, <<Place(e, q) + Layer, y>>}
  BY <1>5, <1>6, OnQuadIs
<1>8. iomodel.faces[FaceNo(e, k)].vertices = {Place(e, p), Place(e, q), Place(e, p) + Layer, Place(e, q) + Layer}
  <2>1. iomodel.faces[FaceNo(e, k)].vertices = FaceVertices(iomodel.mesh, e, k)
    <3>1. k \in 1..5
      OBVIOUS
    <3> QED BY <3>1, FacesAre
  <2>2. FaceVertices(iomodel.mesh, e, k) = {Place(e, v) : v \in {p, q, p + 3, q + 3}}
    BY DEF FaceVertices, Kind, Place
  <2>3. {Place(e, v) : v \in {p, q, p + 3, q + 3}} = {Place(e, p), Place(e, q), Place(e, p + 3), Place(e, q + 3)}
    OBVIOUS
  <2> QED BY <1>5, <2>1, <2>2, <2>3
<1> QED BY <1>2, <1>4, <1>5, <1>7, <1>8 DEF y

-----------------------------------------------------------------------------
(***************************************************************************)
(* The shape of each finite element.                                       *)
(***************************************************************************)
UpOf(v)     == IF v \in {"P1xP2", "P2", "P2bubble"} THEN 1 ELSE IF v = "P1xP3" THEN 2 ELSE IF v = "P2xP4" THEN 3 ELSE 0
LevelOf(v)  == IF v \in {"P2xP1", "P2", "P2bubble", "P2xP4"} THEN 1 ELSE 0
StrideOn(v) == IF v = "P2xP1" THEN 1 ELSE UpOf(v)
QuadOf(v)   == IF Kind # "penta" THEN 0 ELSE IF v \in {"P2", "P2bubble"} THEN 1 ELSE IF v = "P2xP4" THEN 3 ELSE 0
BubbleOf(v) == IF v \in {"P1bubble", "P1bubblecondensed", "P2bubble"} THEN 1 ELSE 0
PressOf(fe) == IF fe \in {"P1DG", "CrouzeixRaviart"} THEN "own"
               ELSE IF fe \in StokesElements \ {"LATaylorHood", "LACrouzeixRaviart"} THEN "vertex" ELSE "none"

Corner(v) == IF v = "P1DG" THEN 0 ELSE 1

ShapeOf(fe) ==
  LET v == VelocityInterpolation(fe)
  IN  [corner |-> Corner(v), up |-> UpOf(v), level |-> LevelOf(v), stride |-> StrideOn(v),
       quad |-> QuadOf(v), bubble |-> BubbleOf(v), press |-> PressOf(fe)]

Velocity(sh, v) ==
  /\ sh.corner = Corner(v) /\ sh.up = UpOf(v) /\ sh.level = LevelOf(v) /\ sh.stride = StrideOn(v)
  /\ sh.quad = QuadOf(v) /\ sh.bubble = BubbleOf(v)

LEMMA ShapeIsGood ==
  ASSUME NEW fe
  PROVE  /\ GoodShape(ShapeOf(fe)) /\ Velocity(ShapeOf(fe), VelocityInterpolation(fe))
         /\ ShapeOf(fe).press = PressOf(fe)
<1> DEFINE v == VelocityInterpolation(fe)
<1> HIDE DEF v
<1>1. UpOf(v) \in 0..3 /\ StrideOn(v) \in 0..3 /\ UpOf(v) <= StrideOn(v) /\ LevelOf(v) <= StrideOn(v)
  BY DEF UpOf, StrideOn, LevelOf
<1>2. LevelOf(v) \in {0, 1} /\ Corner(v) \in {0, 1} /\ BubbleOf(v) \in {0, 1}
  BY DEF Corner, LevelOf, BubbleOf
<1>3. QuadOf(v) \in {0, 1, 3} /\ (QuadOf(v) # 0 => Kind = "penta")
  BY DEF QuadOf
<1>4. PressOf(fe) \in {"none", "vertex", "own"}
  BY DEF PressOf
<1>5. ShapeOf(fe) = [corner |-> Corner(v), up |-> UpOf(v), level |-> LevelOf(v), stride |-> StrideOn(v),
                     quad |-> QuadOf(v), bubble |-> BubbleOf(v), press |-> PressOf(fe)]
  BY DEF ShapeOf, v
<1>6. ShapeOf(fe) \in Shapes
  BY <1>1, <1>2, <1>3, <1>4, <1>5 DEF Shapes
<1>7. Velocity(ShapeOf(fe), v)
  BY <1>5 DEF Velocity
<1> QED BY <1>1, <1>2, <1>3, <1>5, <1>6, <1>7 DEF GoodShape, v

-----------------------------------------------------------------------------
(***************************************************************************)
(* Which names an element has, by the parts of the tables.                 *)
(***************************************************************************)
LEMMA CornersNamed ==
  ASSUME NEW sh, sh.corner = 1, NEW e, NEW nm
  PROVE  nm \in CornerNames(e) <=> CornerName(sh, e, nm)
  BY DEF CornerNames, CornerName

LEMMA BubbleNamed ==
  ASSUME NEW sh, sh.bubble = 1, NEW e, NEW nm
  PROVE  nm \in BubbleNames(e) <=> BubbleName(sh, e, nm)
  BY DEF BubbleNames, BubbleName

LEMMA EdgesUnnamed ==
  ASSUME NEW sh, sh.up = 0, sh.level = 0, NEW e, NEW nm
  PROVE  ~EdgeName(sh, e, nm)
<1>1. \A marker : 1..CopiesOn(sh, marker) = {}
  BY DEF CopiesOn
<1> QED BY <1>1 DEF EdgeName

LEMMA FlatEdgesNamed ==
  ASSUME NEW sh, sh.level = 1, NEW e, NEW nm, NEW which, DOMAIN which = DOMAIN Local,
         \A k \in DOMAIN Local : which[k] = k /\ Local[k][3] = 1
  PROVE  nm \in EdgeNames(e, which, 1) <=> EdgeName(sh, e, nm)
<1>1. \A k \in DOMAIN Local : 1..CopiesOn(sh, Local[k][3]) = {1}
  BY DEF CopiesOn
<1>2. EdgeName(sh, e, nm) <=> \E k \in DOMAIN Local : nm = <<2, EdgeNo(e, k), 1>>
  BY <1>1 DEF EdgeName
<1>3. nm \in EdgeNames(e, which, 1) <=> \E k \in DOMAIN Local : nm = <<2, EdgeNo(e, which[k]), 1>>
  BY DEF EdgeNames
<1> QED BY <1>2, <1>3

LEMMA PlacesOf ==
  /\ DOMAIN vertical = 1..3 /\ \A k \in 1..3 : vertical[k] = k
  /\ DOMAIN horizontal = 1..6 /\ \A k \in 1..6 : horizontal[k] = k + 3
  BY DEF vertical, horizontal

LEMMA PentaEdgesNamed ==
  ASSUME Kind = "penta", NEW sh, sh.level \in {0, 1}, NEW e, NEW nm
  PROVE  EdgeName(sh, e, nm) <=> \/ \E c \in 1..sh.up : nm \in EdgeNames(e, vertical, c)
                                 \/ sh.level = 1 /\ nm \in EdgeNames(e, horizontal, 1)
<1>1. /\ DOMAIN Local = 1..9 /\ \A k \in 1..3 : Local[k][3] = 2
      /\ \A k \in 4..9 : Local[k][3] = 1
  <2>1. \A k \in 4..9 : k \in 4..6 \/ k \in 7..9
    OBVIOUS
  <2>2. /\ DOMAIN Local = 1..9 /\ \A k \in 1..3 : Local[k][3] = 2
        /\ \A k \in 4..6 : Local[k][3] = 1
        /\ \A k \in 7..9 : Local[k][3] = 1
    BY LocalFacts
  <2> QED BY <2>1, <2>2
<1>2. /\ \A k \in 1..3 : CopiesOn(sh, Local[k][3]) = sh.up
      /\ \A k \in 4..9 : CopiesOn(sh, Local[k][3]) = sh.level
  BY <1>1 DEF CopiesOn
<1>3. \A c : nm \in EdgeNames(e, vertical, c) <=> \E k \in 1..3 : nm = <<2, EdgeNo(e, k), c>>
  BY PlacesOf DEF EdgeNames
<1>4. nm \in EdgeNames(e, horizontal, 1) <=> \E k \in 4..9 : nm = <<2, EdgeNo(e, k), 1>>
  <2>1. nm \in EdgeNames(e, horizontal, 1) <=> \E k \in 1..6 : nm = <<2, EdgeNo(e, k + 3), 1>>
    BY PlacesOf DEF EdgeNames
  <2>2. /\ \A k \in 1..6 : k + 3 \in 4..9
        /\ \A k \in 4..9 : k - 3 \in 1..6 /\ (k - 3) + 3 = k
    OBVIOUS
  <2> QED BY <2>1, <2>2
<1>5. EdgeName(sh, e, nm) <=> \E k \in 1..9 : \E c \in 1..CopiesOn(sh, Local[k][3]) : nm = <<2, EdgeNo(e, k), c>>
  BY <1>1 DEF EdgeName
<1>6. \A k : k \in 1..9 <=> k \in 1..3 \/ k \in 4..9
  OBVIOUS
<1>7. EdgeName(sh, e, nm) <=> \/ \E k \in 1..3 : \E c \in 1..sh.up : nm = <<2, EdgeNo(e, k), c>>
                              \/ \E k \in 4..9 : \E c \in 1..sh.level : nm = <<2, EdgeNo(e, k), c>>
  BY <1>2, <1>5, <1>6
<1>8. \A c : c \in 1..sh.level <=> sh.level = 1 /\ c = 1
  OBVIOUS
<1>9. (\E k \in 4..9 : \E c \in 1..sh.level : nm = <<2, EdgeNo(e, k), c>>)
        <=> sh.level = 1 /\ \E k \in 4..9 : nm = <<2, EdgeNo(e, k), 1>>
  BY <1>8
<1> QED BY <1>3, <1>4, <1>7, <1>9

LEMMA QuadsNamed ==
  ASSUME NEW sh, NEW e, NEW nm
  PROVE  QuadName(sh, e, nm) <=> Kind = "penta" /\ \E c \in 1..sh.quad : nm \in QuadNames(e, c)
  BY DEF QuadName, QuadNames

-----------------------------------------------------------------------------
(***************************************************************************)
(* The points on edges and quads.                                          *)
(***************************************************************************)
LEMMA LevelPoints ==
  ASSUME Sound, NEW sh, NEW e \in 1..Nel, NEW c, NEW t, NEW which,
         \A k \in DOMAIN which : /\ which[k] \in DOMAIN Local /\ Local[which[k]][3] = 1
                                 /\ t[k] = Between(Local[which[k]][1], Local[which[k]][2])
  PROVE  PointsOnEdges(sh, e, which, c, t)
<1> SUFFICES ASSUME NEW k \in DOMAIN which
             PROVE  Image(e, t[k]) = OnEdge(iomodel.edges[EdgeNo(e, which[k])].ends,
                                            EdgeWeight(sh, EdgeNo(e, which[k]), c))
  BY DEF PointsOnEdges
<1> QED BY LevelImage

LEMMA UprightPoints ==
  ASSUME Sound, Kind = "penta", NEW sh, NEW e \in 1..Nel, NEW c, NEW w \in 1..23, NEW t,
         \A k \in 1..3 : EdgeWeight(sh, EdgeNo(e, k), c) = w /\ t[k] = {<<k, 24 - w>>, <<k + 3, w>>}
  PROVE  PointsOnEdges(sh, e, vertical, c, t)
<1> SUFFICES ASSUME NEW k \in 1..3
             PROVE  Image(e, t[k]) = OnEdge(iomodel.edges[EdgeNo(e, k)].ends, EdgeWeight(sh, EdgeNo(e, k), c))
  BY PlacesOf DEF PointsOnEdges
<1> DEFINE T == t[k]
<1>1. T = {<<k, 24 - w>>, <<k + 3, w>>} /\ EdgeWeight(sh, EdgeNo(e, k), c) = w
  OBVIOUS
<1> HIDE DEF T
<1>2. \A U : U = {<<k, 24 - w>>, <<k + 3, w>>} => Image(e, U) = OnEdge(iomodel.edges[EdgeNo(e, k)].ends, w)
  BY UprightImage
<1>3. Image(e, T) = OnEdge(iomodel.edges[EdgeNo(e, k)].ends, w)
  BY <1>1, <1>2
<1> QED BY <1>1, <1>3 DEF T

LEMMA UprightWeights ==
  ASSUME Sound, Kind = "penta", NEW sh, NEW e \in 1..Nel, NEW k \in 1..3
  PROVE  /\ sh.up = 1 => EdgeWeight(sh, EdgeNo(e, k), 1) = 12
         /\ sh.up = 2 => EdgeWeight(sh, EdgeNo(e, k), 1) = 8 /\ EdgeWeight(sh, EdgeNo(e, k), 2) = 16
         /\ sh.up = 3 => /\ EdgeWeight(sh, EdgeNo(e, k), 1) = 12 /\ EdgeWeight(sh, EdgeNo(e, k), 2) = 6
                         /\ EdgeWeight(sh, EdgeNo(e, k), 3) = 18
<1>1. k \in DOMAIN Local /\ Local[k][3] = 2
  BY LocalFacts
<1>2. iomodel.edges[EdgeNo(e, k)].marker = 2
  BY <1>1, EdgeMarkers
<1> QED BY <1>2 DEF EdgeWeight

LEMMA QuadFaces ==
  ASSUME Kind = "penta"
  PROVE  /\ LocalFaces(Kind)[3] = {2, 3, 2 + 3, 3 + 3} /\ LocalFaces(Kind)[4] = {3, 1, 3 + 3, 1 + 3}
         /\ LocalFaces(Kind)[5] = {1, 2, 1 + 3, 2 + 3}
<1>1. LocalFaces(Kind) = << {1, 2, 3}, {4, 5, 6}, {2, 3, 6, 5}, {3, 1, 4, 6}, {1, 2, 5, 4} >>
  BY DEF LocalFaces
<1>2. {2, 3, 6, 5} = {2, 3, 2 + 3, 3 + 3} /\ {3, 1, 4, 6} = {3, 1, 3 + 3, 1 + 3} /\ {1, 2, 5, 4} = {1, 2, 1 + 3, 2 + 3}
  OBVIOUS
<1> QED BY <1>1, <1>2

QuadsAt(f) == <<OnSide(2, 3, f), OnSide(3, 1, f), OnSide(1, 2, f)>>

LEMMA QuadPointsAre ==
  ASSUME Sound, Kind = "penta", NEW sh, NEW e \in 1..Nel, NEW c, NEW f \in 1..3, QuadWeight(sh, c) = 3 * f
  PROVE  PointsOnQuads(sh, e, c, QuadsAt(f))
<1>1. Image(e, OnSide(2, 3, f)) = OnQuad(iomodel.faces[FaceNo(e, 3)].vertices, 3 * f)
  BY QuadFaces, QuadImage
<1>2. Image(e, OnSide(3, 1, f)) = OnQuad(iomodel.faces[FaceNo(e, 4)].vertices, 3 * f)
  BY QuadFaces, QuadImage
<1>3. Image(e, OnSide(1, 2, f)) = OnQuad(iomodel.faces[FaceNo(e, 5)].vertices, 3 * f)
  BY QuadFaces, QuadImage
<1>4. /\ QuadsAt(f)[1] = OnSide(2, 3, f) /\ QuadsAt(f)[2] = OnSide(3, 1, f)
      /\ QuadsAt(f)[3] = OnSide(1, 2, f)
  BY DEF QuadsAt
<1> SUFFICES ASSUME NEW k \in 1..3
             PROVE  Image(e, QuadsAt(f)[k]) = OnQuad(iomodel.faces[FaceNo(e, k + 2)].vertices, QuadWeight(sh, c))
  BY DEF PointsOnQuads
<1>5. (k = 1 \/ k = 2 \/ k = 3) /\ 1 + 2 = 3 /\ 2 + 2 = 4 /\ 3 + 2 = 5
  OBVIOUS
<1>6. CASE k = 1
  BY <1>1, <1>4, <1>5, <1>6
<1>7. CASE k = 2
  BY <1>2, <1>4, <1>5, <1>7
<1>8. CASE k = 3
  BY <1>3, <1>4, <1>5, <1>8
<1> QED BY <1>5, <1>6, <1>7, <1>8

-----------------------------------------------------------------------------
(***************************************************************************)
(* The tables of the velocity.                                             *)
(***************************************************************************)
VelocityListed(sh, e, s, t) ==
  \E S : Lists(sh, e, s, t, S) /\ \A nm : nm \in S <=> VelocityName(sh, e, nm)

LEMMA NoQuadNames ==
  ASSUME NEW sh, sh.quad = 0, NEW e, NEW nm
  PROVE  ~QuadName(sh, e, nm)
  BY DEF QuadName

LEMMA NoBubbleName ==
  ASSUME NEW sh, sh.bubble = 0, NEW e, NEW nm
  PROVE  ~BubbleName(sh, e, nm)
  BY DEF BubbleName

LEMMA P1Listed ==
  ASSUME Sound, NEW sh, GoodShape(sh), NEW e \in 1..Nel, sh.corner = 1, sh.up = 0, sh.level = 0, sh.quad = 0, sh.bubble = 0
  PROVE  VelocityListed(sh, e, VertexIds(iomodel, e, 0), Corners(Nc))
<1>1. Lists(sh, e, VertexIds(iomodel, e, 0), Corners(Nc), CornerNames(e))
  BY CornersListed
<1>2. \A nm : nm \in CornerNames(e) <=> VelocityName(sh, e, nm)
  BY CornersNamed, EdgesUnnamed, NoQuadNames, NoBubbleName DEF VelocityName
<1> QED BY <1>1, <1>2 DEF VelocityListed

LEMMA AfterCorners ==
  ASSUME Partitioned, NEW sh, GoodShape(sh), sh.corner = 1
  PROVE  /\ sh.stride = 0 => First3(sh) = Nv
         /\ sh.stride = 1 => First3(sh) = Nv + Ne
         /\ sh.stride = 3 => First3(sh) = Nv + 3 * Ne
         /\ sh.stride = 0 /\ sh.quad = 0 => First4(sh) = Nv
         /\ sh.stride = 1 /\ sh.quad = 0 => First4(sh) = Nv + Ne
         /\ sh.stride = 1 /\ sh.quad = 1 => First4(sh) = Nv + Ne + Nf
         /\ sh.stride = 3 /\ sh.quad = 3 => First4(sh) = Nv + 3 * Ne + 3 * Nf
         /\ Nv \in Nat /\ Ne \in Nat /\ First3(sh) \in Nat /\ First4(sh) \in Nat
<1>1. First2(sh) = Nv /\ Nv \in Nat /\ Ne \in Nat
  BY CornersFirst, IoFacts
<1>2. sh.stride \in Nat /\ sh.quad \in Nat /\ NQuads \in Nat
  BY IoFacts DEF GoodShape, Shapes, NQuads
<1>3. sh.quad # 0 => NQuads = Nf /\ Nf \in Nat
  BY IoFacts DEF GoodShape, NQuads
<1>4. Room(sh.stride, Ne) \in Nat /\ Room(sh.quad, NQuads) \in Nat
  BY <1>1, <1>2, RoomType
<1>5. First3(sh) = Nv + Room(sh.stride, Ne) /\ First4(sh) = First3(sh) + Room(sh.quad, NQuads)
  BY <1>1 DEF First3, First4
<1>6. /\ sh.stride = 0 => Room(sh.stride, Ne) = 0
      /\ sh.stride = 1 => Room(sh.stride, Ne) = Ne
      /\ sh.stride = 3 => Room(sh.stride, Ne) = 3 * Ne
  BY <1>1 DEF Room
<1>7. /\ sh.quad = 0 => Room(sh.quad, NQuads) = 0
      /\ sh.quad = 1 => Room(sh.quad, NQuads) = Nf
      /\ sh.quad = 3 => Room(sh.quad, NQuads) = 3 * Nf
  BY <1>2, <1>3 DEF Room
<1> QED BY <1>1, <1>2, <1>3, <1>4, <1>5, <1>6, <1>7

LEMMA P1bubbleListed ==
  ASSUME Sound, NEW sh, GoodShape(sh), NEW e \in 1..Nel, sh.corner = 1, sh.up = 0, sh.level = 0, sh.stride = 0,
         sh.quad = 0, sh.bubble = 1
  PROVE  VelocityListed(sh, e, VertexIds(iomodel, e, 0) \o <<Nv + e>>, Corners(Nc) \o <<Centre(Nc)>>)
<1>0. Partitioned
  BY DEF Sound
<1>1. Lists(sh, e, VertexIds(iomodel, e, 0), Corners(Nc), CornerNames(e))
  BY CornersListed
<1>2. Nv \in Int /\ Nv = First4(sh)
  BY <1>0, AfterCorners
<1>3. Lists(sh, e, <<Nv + e>>, <<Centre(Nc)>>, BubbleNames(e))
  BY <1>2, BubbleListed
<1>4. Lists(sh, e, VertexIds(iomodel, e, 0) \o <<Nv + e>>, Corners(Nc) \o <<Centre(Nc)>>, CornerNames(e) \cup BubbleNames(e))
  BY <1>1, <1>3, ListsJoin
<1>5. \A nm : nm \in CornerNames(e) \cup BubbleNames(e) <=> VelocityName(sh, e, nm)
  BY CornersNamed, EdgesUnnamed, NoQuadNames, BubbleNamed DEF VelocityName
<1> QED BY <1>4, <1>5 DEF VelocityListed

\* Triangles and tetrahedra with a node at each edge.
SidePoints(kind) ==
  IF kind = "tria" THEN <<Between(2, 3), Between(3, 1), Between(1, 2)>>
  ELSE <<Between(2, 3), Between(1, 3), Between(1, 2), Between(2, 4), Between(3, 4), Between(1, 4)>>
EachEdge(kind) == IF kind = "tria" THEN <<1, 2, 3>> ELSE <<1, 2, 3, 4, 5, 6>>

LEMMA FlatSides ==
  ASSUME Kind \in {"tria", "tetra"}
  PROVE  /\ \E m \in Nat : /\ EachEdge(Kind) \in [1..m -> DOMAIN Local]
                           /\ SidePoints(Kind) = [k \in 1..m |-> SidePoints(Kind)[k]]
         /\ DOMAIN EachEdge(Kind) = DOMAIN Local
         /\ \A k \in DOMAIN Local : /\ EachEdge(Kind)[k] = k /\ Local[k][3] = 1
                                    /\ SidePoints(Kind)[k] = Between(Local[k][1], Local[k][2])
<1>1. CASE Kind = "tria"
  <2>1. Local = << <<2, 3, 1>>, <<3, 1, 1>>, <<1, 2, 1>> >>
    BY <1>1 DEF Local, LocalEdges
  <2>2. SidePoints(Kind) = <<Between(2, 3), Between(3, 1), Between(1, 2)>> /\ EachEdge(Kind) = <<1, 2, 3>>
    <3>1. SidePoints("tria") = <<Between(2, 3), Between(3, 1), Between(1, 2)>>
      BY DEF SidePoints
    <3>2. EachEdge("tria") = <<1, 2, 3>>
      BY DEF EachEdge
    <3> QED BY <1>1, <3>1, <3>2
  <2>3. DOMAIN Local = 1..3 /\ DOMAIN EachEdge(Kind) = 1..3 /\ \A k \in 1..3 : EachEdge(Kind)[k] = k
    BY <2>1, <2>2
  <2>4. /\ Local[1][1] = 2 /\ Local[1][2] = 3 /\ Local[1][3] = 1
        /\ Local[2][1] = 3 /\ Local[2][2] = 1 /\ Local[2][3] = 1
        /\ Local[3][1] = 1 /\ Local[3][2] = 2 /\ Local[3][3] = 1
    BY <2>1
  <2>5. /\ SidePoints(Kind)[1] = Between(2, 3) /\ SidePoints(Kind)[2] = Between(3, 1)
        /\ SidePoints(Kind)[3] = Between(1, 2)
    BY <2>2
  <2>6. \A k \in 1..3 : Local[k][3] = 1 /\ SidePoints(Kind)[k] = Between(Local[k][1], Local[k][2])
    BY <2>4, <2>5
  <2>7. EachEdge(Kind) \in [1..3 -> 1..3] /\ SidePoints(Kind) = [k \in 1..3 |-> SidePoints(Kind)[k]]
    BY <2>2
  <2> QED BY <2>3, <2>6, <2>7
<1>2. CASE Kind = "tetra"
  <2>1. Local = << <<2, 3, 1>>, <<1, 3, 1>>, <<1, 2, 1>>, <<2, 4, 1>>, <<3, 4, 1>>, <<1, 4, 1>> >>
    BY <1>2 DEF Local, LocalEdges
  <2>2. /\ SidePoints(Kind) = <<Between(2, 3), Between(1, 3), Between(1, 2), Between(2, 4), Between(3, 4), Between(1, 4)>>
        /\ EachEdge(Kind) = <<1, 2, 3, 4, 5, 6>>
    <3>1. SidePoints("tetra") = <<Between(2, 3), Between(1, 3), Between(1, 2), Between(2, 4), Between(3, 4), Between(1, 4)>>
      BY DEF SidePoints
    <3>2. EachEdge("tetra") = <<1, 2, 3, 4, 5, 6>>
      BY DEF EachEdge
    <3> QED BY <1>2, <3>1, <3>2
  <2>3. DOMAIN Local = 1..6 /\ DOMAIN EachEdge(Kind) = 1..6 /\ \A k \in 1..6 : EachEdge(Kind)[k] = k
    BY <2>1, <2>2
  <2>4. /\ Local[1][1] = 2 /\ Local[1][2] = 3 /\ Local[1][3] = 1
        /\ Local[2][1] = 1 /\ Local[2][2] = 3 /\ Local[2][3] = 1
        /\ Local[3][1] = 1 /\ Local[3][2] = 2 /\ Local[3][3] = 1
        /\ Local[4][1] = 2 /\ Local[4][2] = 4 /\ Local[4][3] = 1
        /\ Local[5][1] = 3 /\ Local[5][2] = 4 /\ Local[5][3] = 1
        /\ Local[6][1] = 1 /\ Local[6][2] = 4 /\ Local[6][3] = 1
    BY <2>1
  <2>5. /\ SidePoints(Kind)[1] = Between(2, 3) /\ SidePoints(Kind)[2] = Between(1, 3)
        /\ SidePoints(Kind)[3] = Between(1, 2) /\ SidePoints(Kind)[4] = Between(2, 4)
        /\ SidePoints(Kind)[5] = Between(3, 4) /\ SidePoints(Kind)[6] = Between(1, 4)
    BY <2>2
  <2>6. \A k \in 1..6 : Local[k][3] = 1 /\ SidePoints(Kind)[k] = Between(Local[k][1], Local[k][2])
    BY <2>4, <2>5
  <2>7. EachEdge(Kind) \in [1..6 -> 1..6] /\ SidePoints(Kind) = [k \in 1..6 |-> SidePoints(Kind)[k]]
    BY <2>2
  <2> QED BY <2>3, <2>6, <2>7
<1> QED BY <1>1, <1>2

LEMMA FlatP2Lists ==
  ASSUME Sound, Kind \in {"tria", "tetra"}, NEW sh, GoodShape(sh), NEW e \in 1..Nel, sh.corner = 1, sh.stride = 1
  PROVE  Lists(sh, e, VertexIds(iomodel, e, 0) \o EdgeIds(iomodel, e, EachEdge(Kind), 1, 1), Corners(Nc) \o SidePoints(Kind),
               CornerNames(e) \cup EdgeNames(e, EachEdge(Kind), 1))
<1>1. Lists(sh, e, VertexIds(iomodel, e, 0), Corners(Nc), CornerNames(e))
  BY CornersListed
<1> DEFINE which == EachEdge(Kind)
<1> DEFINE t == SidePoints(Kind)
<1>2. PICK m \in Nat : which \in [1..m -> DOMAIN Local] /\ t = [k \in 1..m |-> t[k]]
  BY FlatSides
<1>3. \A k \in DOMAIN which : /\ which[k] \in DOMAIN Local /\ Local[which[k]][3] = 1
                              /\ t[k] = Between(Local[which[k]][1], Local[which[k]][2])
  BY FlatSides
<1> DEFINE c == 1
<1> HIDE DEF which, t, c
<1>4. PointsOnEdges(sh, e, which, c, t)
  BY <1>3, LevelPoints
<1>5. Lists(sh, e, EdgeIds(iomodel, e, which, sh.stride, c), t, EdgeNames(e, which, c))
  <2>1. c \in Nat
    BY DEF c
  <2> QED BY <1>2, <1>4, <2>1, EdgesListed
<1>6. Lists(sh, e, VertexIds(iomodel, e, 0) \o EdgeIds(iomodel, e, which, sh.stride, c), Corners(Nc) \o t,
            CornerNames(e) \cup EdgeNames(e, which, c))
  BY <1>1, <1>5, ListsJoin
<1> QED BY <1>6 DEF which, t, c

LEMMA FlatP2Listed ==
  ASSUME Sound, Kind \in {"tria", "tetra"}, NEW sh, GoodShape(sh), NEW e \in 1..Nel, sh.corner = 1, sh.level = 1,
         sh.stride = 1, sh.quad = 0, sh.bubble = 0
  PROVE  VelocityListed(sh, e, VertexIds(iomodel, e, 0) \o EdgeIds(iomodel, e, EachEdge(Kind), 1, 1), Corners(Nc) \o SidePoints(Kind))
<1>1. \A nm : nm \in EdgeNames(e, EachEdge(Kind), 1) <=> EdgeName(sh, e, nm)
  <2>1. /\ DOMAIN EachEdge(Kind) = DOMAIN Local
        /\ \A k \in DOMAIN Local : EachEdge(Kind)[k] = k /\ Local[k][3] = 1
    BY FlatSides
  <2> QED BY <2>1, FlatEdgesNamed
<1>2. \A nm : nm \in CornerNames(e) \cup EdgeNames(e, EachEdge(Kind), 1) <=> VelocityName(sh, e, nm)
  BY <1>1, CornersNamed, NoQuadNames, NoBubbleName DEF VelocityName
<1> QED BY <1>2, FlatP2Lists DEF VelocityListed

LEMMA FlatP2bubbleListed ==
  ASSUME Sound, Kind \in {"tria", "tetra"}, NEW sh, GoodShape(sh), NEW e \in 1..Nel, sh.corner = 1, sh.level = 1,
         sh.stride = 1, sh.quad = 0, sh.bubble = 1
  PROVE  VelocityListed(sh, e, VertexIds(iomodel, e, 0) \o EdgeIds(iomodel, e, EachEdge(Kind), 1, 1) \o <<Nv + Ne + e>>,
                        Corners(Nc) \o SidePoints(Kind) \o <<Centre(Nc)>>)
<1>0. Partitioned
  BY DEF Sound
<1>1. \A nm : nm \in EdgeNames(e, EachEdge(Kind), 1) <=> EdgeName(sh, e, nm)
  <2>1. /\ DOMAIN EachEdge(Kind) = DOMAIN Local
        /\ \A k \in DOMAIN Local : EachEdge(Kind)[k] = k /\ Local[k][3] = 1
    BY FlatSides
  <2> QED BY <2>1, FlatEdgesNamed
<1> DEFINE S == CornerNames(e) \cup EdgeNames(e, EachEdge(Kind), 1)
<1>2. \A nm : nm \in S \cup BubbleNames(e) <=> VelocityName(sh, e, nm)
  BY <1>1, CornersNamed, NoQuadNames, BubbleNamed DEF VelocityName
<1> DEFINE first == Nv + Ne
<1>3. first \in Int /\ first = First4(sh)
  BY <1>0, AfterCorners
<1> HIDE DEF first
<1>4. Lists(sh, e, <<first + e>>, <<Centre(Nc)>>, BubbleNames(e))
  BY <1>3, BubbleListed
<1>5. Lists(sh, e, VertexIds(iomodel, e, 0) \o EdgeIds(iomodel, e, EachEdge(Kind), 1, 1), Corners(Nc) \o SidePoints(Kind), S)
  BY FlatP2Lists
<1> HIDE DEF S
<1>6. Lists(sh, e, VertexIds(iomodel, e, 0) \o EdgeIds(iomodel, e, EachEdge(Kind), 1, 1) \o <<first + e>>,
            Corners(Nc) \o SidePoints(Kind) \o <<Centre(Nc)>>, S \cup BubbleNames(e))
  BY <1>4, <1>5, ListsJoin
<1> QED BY <1>2, <1>6 DEF VelocityListed, first

-----------------------------------------------------------------------------
(***************************************************************************)
(* The tables of the prisms.                                               *)
(***************************************************************************)
Uprights(f) == [p \in 1..3 |-> OnSide(p, p, f)]
LevelSides == <<Between(2, 3), Between(3, 1), Between(1, 2), Between(5, 6), Between(6, 4), Between(4, 5)>>

LEMMA VerticalListed ==
  ASSUME Sound, Kind = "penta", NEW sh, GoodShape(sh), sh.corner = 1, NEW e \in 1..Nel, NEW c \in Nat,
         NEW w \in 1..23, \A k \in 1..3 : EdgeWeight(sh, EdgeNo(e, k), c) = w,
         NEW t, t = [k \in 1..3 |-> t[k]], \A k \in 1..3 : t[k] = {<<k, 24 - w>>, <<k + 3, w>>}
  PROVE  Lists(sh, e, EdgeIds(iomodel, e, vertical, sh.stride, c), t, EdgeNames(e, vertical, c))
<1>1. PointsOnEdges(sh, e, vertical, c, t)
  BY UprightPoints
<1>2. vertical \in [1..3 -> DOMAIN Local]
  <2>1. DOMAIN Local = 1..9
    BY LocalFacts
  <2>2. vertical \in [1..3 -> 1..3]
    BY DEF vertical
  <2> QED BY <2>1, <2>2
<1> DEFINE m == 3
<1>3. m \in Nat /\ vertical \in [1..m -> DOMAIN Local] /\ t = [k \in 1..m |-> t[k]]
  BY <1>2
<1> HIDE DEF m
<1> QED BY <1>1, <1>3, EdgesListed

LEMMA HorizontalListed ==
  ASSUME Sound, Kind = "penta", NEW sh, GoodShape(sh), sh.corner = 1, NEW e \in 1..Nel, NEW c \in Nat
  PROVE  Lists(sh, e, EdgeIds(iomodel, e, horizontal, sh.stride, c), LevelSides, EdgeNames(e, horizontal, c))
<1>1. Local = << <<1, 4, 2>>, <<2, 5, 2>>, <<3, 6, 2>>, <<2, 3, 1>>, <<3, 1, 1>>, <<1, 2, 1>>,
                 <<5, 6, 1>>, <<6, 4, 1>>, <<4, 5, 1>> >>
  BY DEF Local, LocalEdges
<1>2. DOMAIN Local = 1..9
  BY LocalFacts
<1>3. horizontal \in [1..6 -> 4..9]
  BY DEF horizontal
<1>4. /\ Local[4][1] = 2 /\ Local[4][2] = 3 /\ Local[4][3] = 1
      /\ Local[5][1] = 3 /\ Local[5][2] = 1 /\ Local[5][3] = 1
      /\ Local[6][1] = 1 /\ Local[6][2] = 2 /\ Local[6][3] = 1
      /\ Local[7][1] = 5 /\ Local[7][2] = 6 /\ Local[7][3] = 1
      /\ Local[8][1] = 6 /\ Local[8][2] = 4 /\ Local[8][3] = 1
      /\ Local[9][1] = 4 /\ Local[9][2] = 5 /\ Local[9][3] = 1
  BY <1>1
<1>5. /\ LevelSides[1] = Between(2, 3) /\ LevelSides[2] = Between(3, 1) /\ LevelSides[3] = Between(1, 2)
      /\ LevelSides[4] = Between(5, 6) /\ LevelSides[5] = Between(6, 4) /\ LevelSides[6] = Between(4, 5)
  BY DEF LevelSides
<1>6. /\ horizontal[1] = 4 /\ horizontal[2] = 5 /\ horizontal[3] = 6
      /\ horizontal[4] = 7 /\ horizontal[5] = 8 /\ horizontal[6] = 9
  BY DEF horizontal
<1>7. \A k \in 1..6 : /\ Local[horizontal[k]][3] = 1
                      /\ LevelSides[k] = Between(Local[horizontal[k]][1], Local[horizontal[k]][2])
  <2>1. SUFFICES ASSUME NEW k \in 1..6
                 PROVE  /\ Local[horizontal[k]][3] = 1
                        /\ LevelSides[k] = Between(Local[horizontal[k]][1], Local[horizontal[k]][2])
    OBVIOUS
  <2>2. k = 1 \/ k = 2 \/ k = 3 \/ k = 4 \/ k = 5 \/ k = 6
    OBVIOUS
  <2>3. CASE k = 1
    BY <2>3, <1>4, <1>5, <1>6
  <2>4. CASE k = 2
    BY <2>4, <1>4, <1>5, <1>6
  <2>5. CASE k = 3
    BY <2>5, <1>4, <1>5, <1>6
  <2>6. CASE k = 4
    BY <2>6, <1>4, <1>5, <1>6
  <2>7. CASE k = 5
    BY <2>7, <1>4, <1>5, <1>6
  <2>8. CASE k = 6
    BY <2>8, <1>4, <1>5, <1>6
  <2> QED BY <2>2, <2>3, <2>4, <2>5, <2>6, <2>7, <2>8
<1> DEFINE m == 6
<1> DEFINE t == LevelSides
<1> DEFINE which == horizontal
<1>8. \A k \in DOMAIN which : /\ which[k] \in DOMAIN Local /\ Local[which[k]][3] = 1
                              /\ t[k] = Between(Local[which[k]][1], Local[which[k]][2])
  <2>1. DOMAIN horizontal = 1..6 /\ \A k \in 1..6 : horizontal[k] \in 1..9
    BY <1>3
  <2> QED BY <1>2, <1>7, <2>1
<1>9. m \in Nat /\ which \in [1..m -> DOMAIN Local] /\ t = [k \in 1..m |-> t[k]]
  <2>1. horizontal \in [1..6 -> 1..9]
    BY <1>3
  <2>2. LevelSides = [k \in 1..6 |-> LevelSides[k]]
    BY DEF LevelSides
  <2> QED BY <1>2, <2>1, <2>2
<1> HIDE DEF m, t, which
<1>10. PointsOnEdges(sh, e, which, c, t)
  BY <1>8, LevelPoints
<1>11. Lists(sh, e, EdgeIds(iomodel, e, which, sh.stride, c), t, EdgeNames(e, which, c))
  BY <1>9, <1>10, EdgesListed
<1> QED BY <1>11 DEF t, which

LEMMA UprightsListed ==
  ASSUME Sound, Kind = "penta", NEW sh, GoodShape(sh), sh.corner = 1, NEW e \in 1..Nel, NEW c \in Nat,
         NEW f \in 1..3, \A k \in 1..3 : EdgeWeight(sh, EdgeNo(e, k), c) = 6 * f
  PROVE  Lists(sh, e, EdgeIds(iomodel, e, vertical, sh.stride, c), Uprights(f), EdgeNames(e, vertical, c))
<1> DEFINE w == 6 * f
<1> DEFINE t == Uprights(f)
<1>1. w \in 1..23 /\ \A k \in 1..3 : t[k] = {<<k, 24 - w>>, <<k + 3, w>>}
  BY OnSideIs DEF Uprights
<1>2. t = [k \in 1..3 |-> t[k]]
  BY DEF Uprights
<1>3. \A k \in 1..3 : EdgeWeight(sh, EdgeNo(e, k), c) = w
  OBVIOUS
<1> HIDE DEF w, t
<1>4. Lists(sh, e, EdgeIds(iomodel, e, vertical, sh.stride, c), t, EdgeNames(e, vertical, c))
  BY <1>1, <1>2, <1>3, VerticalListed
<1> QED BY <1>4 DEF t

LEMMA QuadsAtListed ==
  ASSUME Sound, Kind = "penta", NEW sh, GoodShape(sh), NEW e \in 1..Nel, NEW c \in Nat, NEW first, first = First3(sh),
         NEW f \in 1..3, QuadWeight(sh, c) = 3 * f
  PROVE  Lists(sh, e, FaceIds(iomodel, e, first, sh.quad, c), QuadsAt(f), QuadNames(e, c))
<1> DEFINE t == QuadsAt(f)
<1>1. t = [k \in 1..3 |-> t[k]]
  BY DEF QuadsAt
<1>2. PointsOnQuads(sh, e, c, t)
  BY QuadPointsAre
<1> HIDE DEF t
<1>3. Lists(sh, e, FaceIds(iomodel, e, first, sh.quad, c), t, QuadNames(e, c))
  BY <1>1, <1>2, QuadsListed
<1> QED BY <1>3 DEF t

LEMMA OneCopy == \A c : c \in 1..1 <=> c = 1
  OBVIOUS

LEMMA P1xP2Listed ==
  ASSUME Sound, Kind = "penta", NEW sh, GoodShape(sh), NEW e \in 1..Nel, Velocity(sh, "P1xP2")
  PROVE  VelocityListed(sh, e, VertexIds(iomodel, e, 0) \o EdgeIds(iomodel, e, vertical, 1, 1), Corners(Nc) \o Uprights(2))
<1>1. /\ sh.corner = 1 /\ sh.up = 1 /\ sh.level = 0 /\ sh.stride = 1 /\ sh.quad = 0 /\ sh.bubble = 0
      /\ sh.level \in {0, 1}
  BY DEF Velocity, Corner, UpOf, LevelOf, StrideOn, QuadOf, BubbleOf
<1>2. Lists(sh, e, VertexIds(iomodel, e, 0), Corners(Nc), CornerNames(e))
  BY <1>1, CornersListed
<1>3. \A k \in 1..3 : EdgeWeight(sh, EdgeNo(e, k), 1) = 6 * 2
  BY <1>1, UprightWeights
<1>4. Lists(sh, e, EdgeIds(iomodel, e, vertical, sh.stride, 1), Uprights(2), EdgeNames(e, vertical, 1))
  <2>1. 1 \in Nat /\ 2 \in 1..3
    OBVIOUS
  <2> QED BY <1>1, <1>3, <2>1, UprightsListed
<1>5. Lists(sh, e, VertexIds(iomodel, e, 0) \o EdgeIds(iomodel, e, vertical, 1, 1), Corners(Nc) \o Uprights(2),
            CornerNames(e) \cup EdgeNames(e, vertical, 1))
  BY <1>1, <1>2, <1>4, ListsJoin
<1>6. \A nm : EdgeName(sh, e, nm) <=> nm \in EdgeNames(e, vertical, 1)
  <2>1. \A nm : EdgeName(sh, e, nm) <=> \E c \in 1..sh.up : nm \in EdgeNames(e, vertical, c)
    BY <1>1, PentaEdgesNamed
  <2> QED BY <1>1, <2>1, OneCopy
<1>7. \A nm : nm \in CornerNames(e) \cup EdgeNames(e, vertical, 1) <=> VelocityName(sh, e, nm)
  BY <1>1, <1>6, CornersNamed, NoQuadNames, NoBubbleName DEF VelocityName
<1> QED BY <1>5, <1>7 DEF VelocityListed

Cut(below) == IF below = 16 THEN [p \in 1..3 |-> {<<p, 16>>, <<p + 3, 8>>}] ELSE [p \in 1..3 |-> {<<p, 8>>, <<p + 3, 16>>}]

LEMMA CutListed ==
  ASSUME Sound, Kind = "penta", NEW sh, GoodShape(sh), sh.corner = 1, sh.up = 2, NEW e \in 1..Nel,
         NEW c \in Nat, NEW w \in 1..23, (c = 1 /\ w = 8) \/ (c = 2 /\ w = 16)
  PROVE  Lists(sh, e, EdgeIds(iomodel, e, vertical, sh.stride, c), Cut(24 - w), EdgeNames(e, vertical, c))
<1> DEFINE t == Cut(24 - w)
<1>1. \A k \in 1..3 : EdgeWeight(sh, EdgeNo(e, k), c) = w
  BY UprightWeights
<1>2. t = [k \in 1..3 |-> t[k]] /\ \A k \in 1..3 : t[k] = {<<k, 24 - w>>, <<k + 3, w>>}
  <2>1. CASE w = 8
    <3>1. 24 - w = 16
      BY <2>1
    <3>2. Cut(16) = [k \in 1..3 |-> {<<k, 16>>, <<k + 3, 8>>}]
      BY DEF Cut
    <3> QED BY <2>1, <3>1, <3>2
  <2>2. CASE w = 16
    <3>1. 24 - w = 8
      BY <2>2
    <3>2. Cut(8) = [k \in 1..3 |-> {<<k, 8>>, <<k + 3, 16>>}]
      BY DEF Cut
    <3> QED BY <2>2, <3>1, <3>2
  <2> QED BY <2>1, <2>2
<1> HIDE DEF t
<1>3. Lists(sh, e, EdgeIds(iomodel, e, vertical, sh.stride, c), t, EdgeNames(e, vertical, c))
  BY <1>1, <1>2, VerticalListed
<1> QED BY <1>3 DEF t

LEMMA P1xP3Listed ==
  ASSUME Sound, Kind = "penta", NEW sh, GoodShape(sh), NEW e \in 1..Nel, Velocity(sh, "P1xP3")
  PROVE  VelocityListed(sh, e, VertexIds(iomodel, e, 0) \o EdgeIds(iomodel, e, vertical, 2, 1) \o EdgeIds(iomodel, e, vertical, 2, 2),
                        Corners(Nc) \o Cut(16) \o Cut(8))
<1>1. /\ sh.corner = 1 /\ sh.up = 2 /\ sh.level = 0 /\ sh.stride = 2 /\ sh.quad = 0 /\ sh.bubble = 0
      /\ sh.level \in {0, 1}
  BY DEF Velocity, Corner, UpOf, LevelOf, StrideOn, QuadOf, BubbleOf
<1>2. Lists(sh, e, VertexIds(iomodel, e, 0), Corners(Nc), CornerNames(e))
  BY <1>1, CornersListed
<1>3. Lists(sh, e, EdgeIds(iomodel, e, vertical, sh.stride, 1), Cut(24 - 8), EdgeNames(e, vertical, 1))
  <2> DEFINE c == 1
  <2> DEFINE w == 8
  <2>1. c \in Nat /\ w \in 1..23 /\ ((c = 1 /\ w = 8) \/ (c = 2 /\ w = 16))
    OBVIOUS
  <2> HIDE DEF c, w
  <2>2. Lists(sh, e, EdgeIds(iomodel, e, vertical, sh.stride, c), Cut(24 - w), EdgeNames(e, vertical, c))
    BY <1>1, <2>1, CutListed
  <2> QED BY <2>2 DEF c, w
<1>4. Lists(sh, e, EdgeIds(iomodel, e, vertical, sh.stride, 2), Cut(24 - 16), EdgeNames(e, vertical, 2))
  <2> DEFINE c == 2
  <2> DEFINE w == 16
  <2>1. c \in Nat /\ w \in 1..23 /\ ((c = 1 /\ w = 8) \/ (c = 2 /\ w = 16))
    OBVIOUS
  <2> HIDE DEF c, w
  <2>2. Lists(sh, e, EdgeIds(iomodel, e, vertical, sh.stride, c), Cut(24 - w), EdgeNames(e, vertical, c))
    BY <1>1, <2>1, CutListed
  <2> QED BY <2>2 DEF c, w
<1>5. 24 - 8 = 16 /\ 24 - 16 = 8
  OBVIOUS
<1>6. Lists(sh, e, VertexIds(iomodel, e, 0) \o EdgeIds(iomodel, e, vertical, 2, 1), Corners(Nc) \o Cut(16),
            CornerNames(e) \cup EdgeNames(e, vertical, 1))
  BY <1>1, <1>2, <1>3, <1>5, ListsJoin
<1>7. Lists(sh, e, VertexIds(iomodel, e, 0) \o EdgeIds(iomodel, e, vertical, 2, 1) \o EdgeIds(iomodel, e, vertical, 2, 2),
            Corners(Nc) \o Cut(16) \o Cut(8), CornerNames(e) \cup EdgeNames(e, vertical, 1) \cup EdgeNames(e, vertical, 2))
  BY <1>1, <1>4, <1>5, <1>6, ListsJoin
<1>8. \A nm : EdgeName(sh, e, nm) <=> nm \in EdgeNames(e, vertical, 1) \/ nm \in EdgeNames(e, vertical, 2)
  <2>1. \A nm : EdgeName(sh, e, nm) <=> \E c \in 1..sh.up : nm \in EdgeNames(e, vertical, c)
    BY <1>1, PentaEdgesNamed
  <2>2. \A c : c \in 1..2 <=> c = 1 \/ c = 2
    OBVIOUS
  <2> QED BY <1>1, <2>1, <2>2
<1>9. \A nm : nm \in CornerNames(e) \cup EdgeNames(e, vertical, 1) \cup EdgeNames(e, vertical, 2) <=> VelocityName(sh, e, nm)
  BY <1>1, <1>8, CornersNamed, NoQuadNames, NoBubbleName DEF VelocityName
<1> QED BY <1>7, <1>9 DEF VelocityListed

LEMMA P2xP1Listed ==
  ASSUME Sound, Kind = "penta", NEW sh, GoodShape(sh), NEW e \in 1..Nel, Velocity(sh, "P2xP1")
  PROVE  VelocityListed(sh, e, VertexIds(iomodel, e, 0) \o EdgeIds(iomodel, e, horizontal, 1, 1), Corners(Nc) \o LevelSides)
<1>1. /\ sh.corner = 1 /\ sh.up = 0 /\ sh.level = 1 /\ sh.stride = 1 /\ sh.quad = 0 /\ sh.bubble = 0
      /\ sh.level \in {0, 1}
  BY DEF Velocity, Corner, UpOf, LevelOf, StrideOn, QuadOf, BubbleOf
<1>2. Lists(sh, e, VertexIds(iomodel, e, 0), Corners(Nc), CornerNames(e))
  BY <1>1, CornersListed
<1>3. Lists(sh, e, EdgeIds(iomodel, e, horizontal, sh.stride, 1), LevelSides, EdgeNames(e, horizontal, 1))
  <2>1. 1 \in Nat
    OBVIOUS
  <2> QED BY <1>1, <2>1, HorizontalListed
<1>4. Lists(sh, e, VertexIds(iomodel, e, 0) \o EdgeIds(iomodel, e, horizontal, 1, 1), Corners(Nc) \o LevelSides,
            CornerNames(e) \cup EdgeNames(e, horizontal, 1))
  BY <1>1, <1>2, <1>3, ListsJoin
<1>5. \A nm : EdgeName(sh, e, nm) <=> nm \in EdgeNames(e, horizontal, 1)
  <2>1. \A nm : EdgeName(sh, e, nm) <=> \/ \E c \in 1..sh.up : nm \in EdgeNames(e, vertical, c)
                                        \/ sh.level = 1 /\ nm \in EdgeNames(e, horizontal, 1)
    BY <1>1, PentaEdgesNamed
  <2>2. 1..sh.up = {}
    BY <1>1
  <2> QED BY <1>1, <2>1, <2>2
<1>6. \A nm : nm \in CornerNames(e) \cup EdgeNames(e, horizontal, 1) <=> VelocityName(sh, e, nm)
  BY <1>1, <1>5, CornersNamed, NoQuadNames, NoBubbleName DEF VelocityName
<1> QED BY <1>4, <1>6 DEF VelocityListed

PentaP2Points == Corners(Nc) \o Uprights(2) \o LevelSides \o QuadsAt(2)
PentaP2Names(e) == CornerNames(e) \cup EdgeNames(e, vertical, 1) \cup EdgeNames(e, horizontal, 1) \cup QuadNames(e, 1)

LEMMA PentaP2Lists ==
  ASSUME Sound, Kind = "penta", NEW sh, GoodShape(sh), NEW e \in 1..Nel,
         sh.corner = 1, sh.up = 1, sh.level = 1, sh.stride = 1, sh.quad = 1
  PROVE  /\ Lists(sh, e, PentaP2Ids(iomodel, e), PentaP2Points, PentaP2Names(e))
         /\ \A nm : nm \in PentaP2Names(e) <=> CornerName(sh, e, nm) \/ EdgeName(sh, e, nm) \/ QuadName(sh, e, nm)
<1>0. Partitioned
  BY DEF Sound
<1>1. Lists(sh, e, VertexIds(iomodel, e, 0), Corners(Nc), CornerNames(e))
  BY CornersListed
<1>2. \A k \in 1..3 : EdgeWeight(sh, EdgeNo(e, k), 1) = 6 * 2
  BY UprightWeights
<1>3. Lists(sh, e, EdgeIds(iomodel, e, vertical, sh.stride, 1), Uprights(2), EdgeNames(e, vertical, 1))
  <2>1. 1 \in Nat /\ 2 \in 1..3
    OBVIOUS
  <2> QED BY <1>2, <2>1, UprightsListed
<1>4. Lists(sh, e, EdgeIds(iomodel, e, horizontal, sh.stride, 1), LevelSides, EdgeNames(e, horizontal, 1))
  <2>1. 1 \in Nat
    OBVIOUS
  <2> QED BY <2>1, HorizontalListed
<1>5. Lists(sh, e, FaceIds(iomodel, e, Nv + Ne, sh.quad, 1), QuadsAt(2), QuadNames(e, 1))
  <2>1. 1 \in Nat /\ 2 \in 1..3 /\ QuadWeight(sh, 1) = 3 * 2
    BY DEF QuadWeight
  <2>2. First3(sh) = Nv + Ne
    BY <1>0, AfterCorners
  <2> QED BY <2>1, <2>2, QuadsAtListed
<1> DEFINE a == VertexIds(iomodel, e, 0)
<1> DEFINE b == EdgeIds(iomodel, e, vertical, 1, 1)
<1> DEFINE c == EdgeIds(iomodel, e, horizontal, 1, 1)
<1> DEFINE d == FaceIds(iomodel, e, Nv + Ne, 1, 1)
<1>6. PentaP2Ids(iomodel, e) = a \o b \o c \o d
  BY DEF PentaP2Ids, Nv, Ne
<1>7. /\ Lists(sh, e, b, Uprights(2), EdgeNames(e, vertical, 1))
      /\ Lists(sh, e, c, LevelSides, EdgeNames(e, horizontal, 1))
      /\ Lists(sh, e, d, QuadsAt(2), QuadNames(e, 1))
  BY <1>3, <1>4, <1>5
<1>8. Lists(sh, e, a, Corners(Nc), CornerNames(e))
  BY <1>1
<1> HIDE DEF a, b, c, d
<1>9. Lists(sh, e, a \o b, Corners(Nc) \o Uprights(2), CornerNames(e) \cup EdgeNames(e, vertical, 1))
  BY <1>7, <1>8, ListsJoin
<1>10. Lists(sh, e, a \o b \o c, Corners(Nc) \o Uprights(2) \o LevelSides,
             CornerNames(e) \cup EdgeNames(e, vertical, 1) \cup EdgeNames(e, horizontal, 1))
  BY <1>7, <1>9, ListsJoin
<1>11. Lists(sh, e, a \o b \o c \o d, PentaP2Points, PentaP2Names(e))
  BY <1>7, <1>10, ListsJoin DEF PentaP2Points, PentaP2Names
<1>12. \A nm : EdgeName(sh, e, nm) <=> nm \in EdgeNames(e, vertical, 1) \/ nm \in EdgeNames(e, horizontal, 1)
  <2>1. \A nm : EdgeName(sh, e, nm) <=> \/ \E x \in 1..sh.up : nm \in EdgeNames(e, vertical, x)
                                        \/ sh.level = 1 /\ nm \in EdgeNames(e, horizontal, 1)
    BY PentaEdgesNamed
  <2> QED BY <2>1, OneCopy
<1>13. \A nm : QuadName(sh, e, nm) <=> nm \in QuadNames(e, 1)
  BY QuadsNamed, OneCopy
<1>14. \A nm : nm \in PentaP2Names(e) <=> CornerName(sh, e, nm) \/ EdgeName(sh, e, nm) \/ QuadName(sh, e, nm)
  BY <1>12, <1>13, CornersNamed DEF PentaP2Names
<1> QED BY <1>6, <1>11, <1>14

LEMMA PentaP2Listed ==
  ASSUME Sound, Kind = "penta", NEW sh, GoodShape(sh), NEW e \in 1..Nel, Velocity(sh, "P2")
  PROVE  VelocityListed(sh, e, PentaP2Ids(iomodel, e), PentaP2Points)
<1>1. sh.corner = 1 /\ sh.up = 1 /\ sh.level = 1 /\ sh.stride = 1 /\ sh.quad = 1 /\ sh.bubble = 0
  BY DEF Velocity, Corner, UpOf, LevelOf, StrideOn, QuadOf, BubbleOf
<1>2. \A nm : nm \in PentaP2Names(e) <=> VelocityName(sh, e, nm)
  BY <1>1, PentaP2Lists, NoBubbleName DEF VelocityName
<1> QED BY <1>1, <1>2, PentaP2Lists DEF VelocityListed

LEMMA PentaP2bubbleListed ==
  ASSUME Sound, Kind = "penta", NEW sh, GoodShape(sh), NEW e \in 1..Nel, Velocity(sh, "P2bubble")
  PROVE  VelocityListed(sh, e, PentaP2Ids(iomodel, e) \o <<Nv + Ne + Nf + e>>, PentaP2Points \o <<Centre(Nc)>>)
<1>0. Partitioned
  BY DEF Sound
<1>1. sh.corner = 1 /\ sh.up = 1 /\ sh.level = 1 /\ sh.stride = 1 /\ sh.quad = 1 /\ sh.bubble = 1
  BY DEF Velocity, Corner, UpOf, LevelOf, StrideOn, QuadOf, BubbleOf
<1> DEFINE first == Nv + Ne + Nf
<1>2. first \in Int /\ first = First4(sh)
  BY <1>0, <1>1, AfterCorners
<1> HIDE DEF first
<1>3. Lists(sh, e, <<first + e>>, <<Centre(Nc)>>, BubbleNames(e))
  BY <1>1, <1>2, BubbleListed
<1>4. Lists(sh, e, PentaP2Ids(iomodel, e), PentaP2Points, PentaP2Names(e))
  BY <1>1, PentaP2Lists
<1>5. Lists(sh, e, PentaP2Ids(iomodel, e) \o <<first + e>>, PentaP2Points \o <<Centre(Nc)>>, PentaP2Names(e) \cup BubbleNames(e))
  BY <1>3, <1>4, ListsJoin
<1>6. \A nm : nm \in PentaP2Names(e) \cup BubbleNames(e) <=> VelocityName(sh, e, nm)
  BY <1>1, PentaP2Lists, BubbleNamed DEF VelocityName
<1> QED BY <1>5, <1>6 DEF VelocityListed, first

P2xP4Points == Corners(Nc) \o Uprights(2) \o LevelSides \o Uprights(1) \o Uprights(3) \o QuadsAt(1) \o QuadsAt(2) \o QuadsAt(3)

LEMMA P2xP4Listed ==
  ASSUME Sound, Kind = "penta", NEW sh, GoodShape(sh), NEW e \in 1..Nel, Velocity(sh, "P2xP4")
  PROVE  VelocityListed(sh, e, PentaP2xP4Ids(iomodel, e), P2xP4Points)
<1>0. Partitioned
  BY DEF Sound
<1>1. /\ sh.corner = 1 /\ sh.up = 3 /\ sh.level = 1 /\ sh.stride = 3 /\ sh.quad = 3 /\ sh.bubble = 0
      /\ sh.level \in {0, 1}
  BY DEF Velocity, Corner, UpOf, LevelOf, StrideOn, QuadOf, BubbleOf
<1> DEFINE N1 == CornerNames(e)
<1> DEFINE N2 == EdgeNames(e, vertical, 1)
<1> DEFINE N3 == EdgeNames(e, horizontal, 1)
<1> DEFINE N4 == EdgeNames(e, vertical, 2)
<1> DEFINE N5 == EdgeNames(e, vertical, 3)
<1> DEFINE N6 == QuadNames(e, 1)
<1> DEFINE N7 == QuadNames(e, 2)
<1> DEFINE N8 == QuadNames(e, 3)
<1> DEFINE s1 == VertexIds(iomodel, e, 0)
<1> DEFINE s2 == EdgeIds(iomodel, e, vertical, 3, 1)
<1> DEFINE s3 == EdgeIds(iomodel, e, horizontal, 3, 1)
<1> DEFINE s4 == EdgeIds(iomodel, e, vertical, 3, 2)
<1> DEFINE s5 == EdgeIds(iomodel, e, vertical, 3, 3)
<1> DEFINE s6 == FaceIds(iomodel, e, Nv + 3 * Ne, 3, 1)
<1> DEFINE s7 == FaceIds(iomodel, e, Nv + 3 * Ne, 3, 2)
<1> DEFINE s8 == FaceIds(iomodel, e, Nv + 3 * Ne, 3, 3)
<1>2. Lists(sh, e, s1, Corners(Nc), N1)
  BY <1>1, CornersListed
<1>n. 1 \in Nat /\ 2 \in Nat /\ 3 \in Nat /\ 1 \in 1..3 /\ 2 \in 1..3 /\ 3 \in 1..3
  OBVIOUS
<1>3. Lists(sh, e, s2, Uprights(2), N2)
  <2>1. \A k \in 1..3 : EdgeWeight(sh, EdgeNo(e, k), 1) = 6 * 2
    BY <1>1, UprightWeights
  <2>2. Lists(sh, e, EdgeIds(iomodel, e, vertical, sh.stride, 1), Uprights(2), N2)
    BY <1>1, <1>n, <2>1, UprightsListed
  <2> QED BY <1>1, <2>2
<1>4. Lists(sh, e, s4, Uprights(1), N4)
  <2>1. \A k \in 1..3 : EdgeWeight(sh, EdgeNo(e, k), 2) = 6 * 1
    BY <1>1, UprightWeights
  <2>2. Lists(sh, e, EdgeIds(iomodel, e, vertical, sh.stride, 2), Uprights(1), N4)
    BY <1>1, <1>n, <2>1, UprightsListed
  <2> QED BY <1>1, <2>2
<1>5. Lists(sh, e, s5, Uprights(3), N5)
  <2>1. \A k \in 1..3 : EdgeWeight(sh, EdgeNo(e, k), 3) = 6 * 3
    BY <1>1, UprightWeights
  <2>2. Lists(sh, e, EdgeIds(iomodel, e, vertical, sh.stride, 3), Uprights(3), N5)
    BY <1>1, <1>n, <2>1, UprightsListed
  <2> QED BY <1>1, <2>2
<1>6. Lists(sh, e, s3, LevelSides, N3)
  <2>1. Lists(sh, e, EdgeIds(iomodel, e, horizontal, sh.stride, 1), LevelSides, N3)
    BY <1>1, <1>n, HorizontalListed
  <2> QED BY <1>1, <2>1
<1>7. First3(sh) = Nv + 3 * Ne
  BY <1>0, <1>1, AfterCorners
<1>8. \A c \in 1..3 : Lists(sh, e, FaceIds(iomodel, e, Nv + 3 * Ne, sh.quad, c), QuadsAt(c), QuadNames(e, c))
  <2> SUFFICES ASSUME NEW c \in 1..3
               PROVE  Lists(sh, e, FaceIds(iomodel, e, Nv + 3 * Ne, sh.quad, c), QuadsAt(c), QuadNames(e, c))
    OBVIOUS
  <2>1. QuadWeight(sh, c) = 3 * c
    BY <1>1 DEF QuadWeight
  <2>2. c \in Nat
    OBVIOUS
  <2> QED BY <1>7, <2>1, <2>2, QuadsAtListed
<1>9. Lists(sh, e, s6, QuadsAt(1), N6)
  BY <1>1, <1>n, <1>8
<1>10. Lists(sh, e, s7, QuadsAt(2), N7)
  BY <1>1, <1>n, <1>8
<1>11. Lists(sh, e, s8, QuadsAt(3), N8)
  BY <1>1, <1>n, <1>8
<1>12. PentaP2xP4Ids(iomodel, e) = s1 \o s2 \o s3 \o s4 \o s5 \o s6 \o s7 \o s8
  BY DEF PentaP2xP4Ids, Nv, Ne
<1>13. \A nm : EdgeName(sh, e, nm) <=> nm \in N2 \/ nm \in N3 \/ nm \in N4 \/ nm \in N5
  <2>1. \A nm : EdgeName(sh, e, nm) <=> \/ \E c \in 1..sh.up : nm \in EdgeNames(e, vertical, c)
                                        \/ sh.level = 1 /\ nm \in EdgeNames(e, horizontal, 1)
    BY <1>1, PentaEdgesNamed
  <2>2. \A c : c \in 1..3 <=> c = 1 \/ c = 2 \/ c = 3
    OBVIOUS
  <2> QED BY <1>1, <2>1, <2>2
<1>14. \A nm : QuadName(sh, e, nm) <=> nm \in N6 \/ nm \in N7 \/ nm \in N8
  <2>1. \A nm : QuadName(sh, e, nm) <=> \E c \in 1..sh.quad : nm \in QuadNames(e, c)
    BY QuadsNamed
  <2>2. \A c : c \in 1..3 <=> c = 1 \/ c = 2 \/ c = 3
    OBVIOUS
  <2> QED BY <1>1, <2>1, <2>2
<1>15. \A nm : nm \in N1 <=> CornerName(sh, e, nm)
  BY <1>1, CornersNamed
<1> HIDE DEF N1, N2, N3, N4, N5, N6, N7, N8, s1, s2, s3, s4, s5, s6, s7, s8
<1>16. Lists(sh, e, s1 \o s2, Corners(Nc) \o Uprights(2), N1 \cup N2)
  BY <1>2, <1>3, ListsJoin
<1>17. Lists(sh, e, s1 \o s2 \o s3, Corners(Nc) \o Uprights(2) \o LevelSides, N1 \cup N2 \cup N3)
  BY <1>6, <1>16, ListsJoin
<1>18. Lists(sh, e, s1 \o s2 \o s3 \o s4, Corners(Nc) \o Uprights(2) \o LevelSides \o Uprights(1), N1 \cup N2 \cup N3 \cup N4)
  BY <1>4, <1>17, ListsJoin
<1>19. Lists(sh, e, s1 \o s2 \o s3 \o s4 \o s5, Corners(Nc) \o Uprights(2) \o LevelSides \o Uprights(1) \o Uprights(3),
             N1 \cup N2 \cup N3 \cup N4 \cup N5)
  BY <1>5, <1>18, ListsJoin
<1>20. Lists(sh, e, s1 \o s2 \o s3 \o s4 \o s5 \o s6,
             Corners(Nc) \o Uprights(2) \o LevelSides \o Uprights(1) \o Uprights(3) \o QuadsAt(1),
             N1 \cup N2 \cup N3 \cup N4 \cup N5 \cup N6)
  BY <1>9, <1>19, ListsJoin
<1>21. Lists(sh, e, s1 \o s2 \o s3 \o s4 \o s5 \o s6 \o s7,
             Corners(Nc) \o Uprights(2) \o LevelSides \o Uprights(1) \o Uprights(3) \o QuadsAt(1) \o QuadsAt(2),
             N1 \cup N2 \cup N3 \cup N4 \cup N5 \cup N6 \cup N7)
  BY <1>10, <1>20, ListsJoin
<1>22. Lists(sh, e, s1 \o s2 \o s3 \o s4 \o s5 \o s6 \o s7 \o s8, P2xP4Points,
             N1 \cup N2 \cup N3 \cup N4 \cup N5 \cup N6 \cup N7 \cup N8)
  BY <1>11, <1>21, ListsJoin DEF P2xP4Points
<1>23. \A nm : nm \in N1 \cup N2 \cup N3 \cup N4 \cup N5 \cup N6 \cup N7 \cup N8 <=> VelocityName(sh, e, nm)
  BY <1>1, <1>13, <1>14, <1>15, NoBubbleName DEF VelocityName
<1> QED BY <1>12, <1>22, <1>23 DEF VelocityListed

\* The velocity interpolations for which each kind of element has a table.
HasVelocityTable(v) ==
  CASE Kind = "tria"  -> v \in {"P1", "P1bubble", "P1bubblecondensed", "P2", "P2bubble"}
    [] Kind = "tetra" -> v \in {"P1", "P1bubble", "P1bubblecondensed", "P2"}
    [] Kind = "penta" -> v \in ScalarElements

LEMMA FlatTable1 ==
  ASSUME Sound, NEW sh, GoodShape(sh), NEW v \in {"P1", "P1bubble", "P1bubblecondensed"}, Velocity(sh, v), NEW e \in 1..Nel,
         Kind \in {"tria", "tetra", "penta"}
  PROVE  VelocityListed(sh, e, NodeIds(iomodel, v, e), Points(Kind, v))
<1>1. /\ sh.corner = 1 /\ sh.up = 0 /\ sh.level = 0 /\ sh.stride = 0 /\ sh.quad = 0
      /\ sh.bubble = IF v = "P1" THEN 0 ELSE 1
  BY DEF Velocity, Corner, UpOf, LevelOf, StrideOn, QuadOf, BubbleOf
<1>2. Nc = IF Kind = "tria" THEN 3 ELSE IF Kind = "tetra" THEN 4 ELSE 6
  BY DEF Nc, CornersOf
<1>3. CASE v = "P1"
  <2>1. NodeIds(iomodel, v, e) = VertexIds(iomodel, e, 0)
    BY <1>3 DEF NodeIds, TriaNodeIds, TetraNodeIds, PentaNodeIds, Kind
  <2>2. Points(Kind, v) = Corners(Nc)
    BY <1>2, <1>3 DEF Points, TriaPoints, TetraPoints, PentaPoints
  <2> QED BY <1>1, <1>3, <2>1, <2>2, P1Listed
<1>4. CASE v # "P1"
  <2>1. NodeIds(iomodel, v, e) = VertexIds(iomodel, e, 0) \o <<Nv + e>>
    BY <1>4, SMTT(30) DEF NodeIds, TriaNodeIds, TetraNodeIds, PentaNodeIds, Kind, Nv
  <2>2. Points(Kind, v) = Corners(Nc) \o <<Centre(Nc)>>
    BY <1>2, <1>4 DEF Points, TriaPoints, TetraPoints, PentaPoints
  <2> QED BY <1>1, <1>4, <2>1, <2>2, P1bubbleListed
<1> QED BY <1>3, <1>4

LEMMA FlatTable2 ==
  ASSUME Sound, NEW sh, GoodShape(sh), NEW v, v = "P2" \/ (v = "P2bubble" /\ Kind = "tria"), Velocity(sh, v),
         NEW e \in 1..Nel, Kind \in {"tria", "tetra"}
  PROVE  VelocityListed(sh, e, NodeIds(iomodel, v, e), Points(Kind, v))
<1>1. /\ sh.corner = 1 /\ sh.up = 1 /\ sh.level = 1 /\ sh.stride = 1 /\ sh.quad = 0
      /\ sh.bubble = IF v = "P2" THEN 0 ELSE 1
  BY DEF Velocity, Corner, UpOf, LevelOf, StrideOn, QuadOf, BubbleOf
<1>2. Nc = IF Kind = "tria" THEN 3 ELSE 4
  BY DEF Nc, CornersOf
<1>3. CASE v = "P2"
  <2>1. NodeIds(iomodel, v, e) = VertexIds(iomodel, e, 0) \o EdgeIds(iomodel, e, EachEdge(Kind), 1, 1)
    BY <1>3 DEF NodeIds, TriaNodeIds, TetraNodeIds, Kind, EachEdge
  <2>2. Points(Kind, v) = Corners(Nc) \o SidePoints(Kind)
    BY <1>2, <1>3 DEF Points, TriaPoints, TetraPoints, SidePoints
  <2> QED BY <1>1, <1>3, <2>1, <2>2, FlatP2Listed
<1>4. CASE v = "P2bubble" /\ Kind = "tria"
  <2>1. NodeIds(iomodel, v, e) = VertexIds(iomodel, e, 0) \o EdgeIds(iomodel, e, EachEdge(Kind), 1, 1) \o <<Nv + Ne + e>>
    BY <1>4 DEF NodeIds, TriaNodeIds, Kind, EachEdge, Nv, Ne
  <2>2. Points(Kind, v) = Corners(Nc) \o SidePoints(Kind) \o <<Centre(Nc)>>
    BY <1>2, <1>4 DEF Points, TriaPoints, SidePoints
  <2> QED BY <1>1, <1>4, <2>1, <2>2, FlatP2bubbleListed
<1> QED BY <1>3, <1>4

LEMMA PentaTable ==
  ASSUME Sound, NEW sh, GoodShape(sh), NEW v \in {"P1xP2", "P1xP3", "P2xP1", "P2", "P2bubble", "P2xP4"}, Velocity(sh, v),
         NEW e \in 1..Nel, Kind = "penta"
  PROVE  VelocityListed(sh, e, NodeIds(iomodel, v, e), Points(Kind, v))
<1>1. Nc = 6
  BY DEF Nc, CornersOf
<1>2. NodeIds(iomodel, v, e) = PentaNodeIds(iomodel, v, e) /\ Points(Kind, v) = PentaPoints(v)
  BY DEF NodeIds, Kind, Points
<1>3. CASE v = "P1xP2"
  <2>1. PentaNodeIds(iomodel, v, e) = VertexIds(iomodel, e, 0) \o EdgeIds(iomodel, e, vertical, 1, 1)
    BY <1>3 DEF PentaNodeIds
  <2>2. PentaPoints(v) = Corners(Nc) \o Uprights(2)
    BY <1>1, <1>3 DEF PentaPoints, Uprights
  <2> QED BY <1>2, <1>3, <2>1, <2>2, P1xP2Listed
<1>4. CASE v = "P1xP3"
  <2>1. PentaNodeIds(iomodel, v, e)
          = VertexIds(iomodel, e, 0) \o EdgeIds(iomodel, e, vertical, 2, 1) \o EdgeIds(iomodel, e, vertical, 2, 2)
    BY <1>4 DEF PentaNodeIds
  <2>2. PentaPoints(v) = Corners(Nc) \o Cut(16) \o Cut(8)
    BY <1>1, <1>4 DEF PentaPoints, Cut
  <2> QED BY <1>2, <1>4, <2>1, <2>2, P1xP3Listed
<1>5. CASE v = "P2xP1"
  <2>1. PentaNodeIds(iomodel, v, e) = VertexIds(iomodel, e, 0) \o EdgeIds(iomodel, e, horizontal, 1, 1)
    BY <1>5 DEF PentaNodeIds
  <2>2. PentaPoints(v) = Corners(Nc) \o LevelSides
    BY <1>1, <1>5 DEF PentaPoints, LevelSides
  <2> QED BY <1>2, <1>5, <2>1, <2>2, P2xP1Listed
<1>6. CASE v = "P2"
  <2>1. PentaNodeIds(iomodel, v, e) = PentaP2Ids(iomodel, e)
    BY <1>6 DEF PentaNodeIds
  <2>2. PentaPoints(v) = PentaP2Points
    BY <1>1, <1>6 DEF PentaPoints, PentaP2Points, Uprights, LevelSides, QuadsAt
  <2> QED BY <1>2, <1>6, <2>1, <2>2, PentaP2Listed
<1>7. CASE v = "P2bubble"
  <2>1. PentaNodeIds(iomodel, v, e) = PentaP2Ids(iomodel, e) \o <<Nv + Ne + Nf + e>>
    BY <1>7 DEF PentaNodeIds, Nv, Ne, Nf
  <2>2. PentaPoints(v) = PentaP2Points \o <<Centre(Nc)>>
    BY <1>1, <1>7 DEF PentaPoints, PentaP2Points, Uprights, LevelSides, QuadsAt
  <2> QED BY <1>2, <1>7, <2>1, <2>2, PentaP2bubbleListed
<1>8. CASE v = "P2xP4"
  <2>1. PentaNodeIds(iomodel, v, e) = PentaP2xP4Ids(iomodel, e)
    BY <1>8 DEF PentaNodeIds
  <2>2. PentaPoints(v) = P2xP4Points
    BY <1>1, <1>8 DEF PentaPoints, P2xP4Points, Uprights, LevelSides, QuadsAt
  <2> QED BY <1>2, <1>8, <2>1, <2>2, P2xP4Listed
<1> QED BY <1>3, <1>4, <1>5, <1>6, <1>7, <1>8

LEMMA KindIs ==
  ASSUME Partitioned
  PROVE  Kind \in {"tria", "tetra", "penta"}
  BY MeshIsKnown DEF IsMesh, Kind

LEMMA VelocityTable ==
  ASSUME Sound, NEW sh, GoodShape(sh), NEW v, HasVelocityTable(v), Velocity(sh, v), NEW e \in 1..Nel
  PROVE  VelocityListed(sh, e, NodeIds(iomodel, v, e), Points(Kind, v))
<1>1. Kind \in {"tria", "tetra", "penta"}
  BY KindIs DEF Sound
<1>2. CASE Kind = "tria"
  <2>1. v \in {"P1", "P1bubble", "P1bubblecondensed"} \/ v = "P2" \/ v = "P2bubble"
    BY <1>2 DEF HasVelocityTable
  <2> QED BY <1>2, <2>1, FlatTable1, FlatTable2
<1>3. CASE Kind = "tetra"
  <2>1. v \in {"P1", "P1bubble", "P1bubblecondensed"} \/ v = "P2"
    BY <1>3 DEF HasVelocityTable
  <2> QED BY <1>3, <2>1, FlatTable1, FlatTable2
<1>4. CASE Kind = "penta"
  <2>1. v \in {"P1", "P1bubble", "P1bubblecondensed"} \/ v \in {"P1xP2", "P1xP3", "P2xP1", "P2", "P2bubble", "P2xP4"}
    BY <1>4 DEF HasVelocityTable, ScalarElements
  <2> QED BY <1>4, <2>1, FlatTable1, PentaTable
<1> QED BY <1>1, <1>2, <1>3, <1>4

HasTable(fe) == TableFor(Kind, fe)

HasPressure(fe) == fe \in StokesElements \ {"LATaylorHood", "LACrouzeixRaviart"}

PressureIds(fe, e) ==
  IF fe = "CrouzeixRaviart" THEN OwnIds(iomodel, e, PressureOffset(fe)) ELSE VertexIds(iomodel, e, PressureOffset(fe))

LEMMA VelocityHasTable ==
  ASSUME Sound, NEW fe, HasTable(fe), fe # "P1DG"
  PROVE  HasVelocityTable(VelocityInterpolation(fe))
<1>1. Kind \in {"tria", "tetra", "penta"}
  BY KindIs DEF Sound
<1>2. CASE Kind = "tria"
  BY <1>2 DEF HasTable, TableFor, HasVelocityTable, VelocityInterpolation, StokesElements
<1>3. CASE Kind = "tetra"
  BY <1>3 DEF HasTable, TableFor, HasVelocityTable, VelocityInterpolation, StokesElements
<1>4. CASE Kind = "penta"
  BY <1>4 DEF HasTable, TableFor, HasVelocityTable, VelocityInterpolation, StokesElements, ScalarElements
<1> QED BY <1>1, <1>2, <1>3, <1>4

\* The table of an element with two fields is one for the velocity, then one for the pressure.
LEMMA TableParts ==
  ASSUME Sound, NEW fe, HasTable(fe), NEW e
  PROVE  /\ HasPressure(fe) => NodeIds(iomodel, fe, e) = NodeIds(iomodel, VelocityInterpolation(fe), e) \o PressureIds(fe, e)
         /\ ~HasPressure(fe) => NodeIds(iomodel, fe, e) = NodeIds(iomodel, VelocityInterpolation(fe), e)
<1>1. Kind \in {"tria", "tetra", "penta"}
  BY KindIs DEF Sound
<1>2. CASE fe \notin StokesElements
  BY <1>2, SMTT(60) DEF HasPressure, VelocityInterpolation, StokesElements
<1>3. CASE fe \in {"LATaylorHood", "LACrouzeixRaviart"}
  BY <1>1, <1>3, ZenonT(60) DEF HasPressure, VelocityInterpolation, NodeIds, TriaNodeIds, TetraNodeIds, PentaNodeIds, Kind, HasTable, TableFor,
                    StokesElements
<1>4. CASE fe \in {"P1P1", "P1P1GLS"}
  <2>1. HasPressure(fe) /\ VelocityInterpolation(fe) = "P1" /\ PressureIds(fe, e) = VertexIds(iomodel, e, Nv)
    BY <1>4 DEF HasPressure, StokesElements, VelocityInterpolation, PressureIds, PressureOffset, Nv
  <2>2. Kind \in {"tria", "penta"}
    BY <1>1, <1>4 DEF HasTable, TableFor
  <2> QED BY <1>4, <2>1, <2>2 DEF NodeIds, TriaNodeIds, PentaNodeIds, Kind, Nv
<1>5. CASE fe \in {"MINI", "MINIcondensed"}
  <2>1. /\ HasPressure(fe) /\ VelocityInterpolation(fe) = "P1bubble"
        /\ PressureIds(fe, e) = VertexIds(iomodel, e, Nv + Nel)
    BY <1>5 DEF HasPressure, StokesElements, VelocityInterpolation, PressureIds, PressureOffset, Nv, Nel
  <2> QED BY <1>1, <1>5, <2>1 DEF NodeIds, TriaNodeIds, TetraNodeIds, PentaNodeIds, Kind, Nv, Nel
<1>6. CASE fe \in {"TaylorHood", "XTaylorHood"}
  <2>1. /\ HasPressure(fe) /\ VelocityInterpolation(fe) = "P2"
        /\ PressureIds(fe, e) = VertexIds(iomodel, e, AfterP2)
    BY <1>6, SMTT(30) DEF HasPressure, StokesElements, VelocityInterpolation, PressureIds, PressureOffset
  <2>2. CASE Kind \in {"tria", "tetra"}
    <3>1. Nv \in Nat /\ Ne \in Nat
      BY IoFacts DEF Sound
    <3>2. AfterP2 = Nv + Ne
      BY <2>2, <3>1 DEF AfterP2, Kind, Nv, Ne
    <3> QED BY <1>6, <2>1, <2>2, <3>2 DEF NodeIds, TriaNodeIds, TetraNodeIds, Kind, Nv, Ne
  <2>3. CASE Kind = "penta"
    <3>1. AfterP2 = Nv + Ne + Nf
      BY <2>3 DEF AfterP2, Kind, Nv, Ne, Nf
    <3>2. fe = "TaylorHood"
      BY <1>6, <2>3 DEF HasTable, TableFor, ScalarElements
    <3> QED BY <2>1, <2>3, <3>1, <3>2 DEF NodeIds, PentaNodeIds, Kind, Nv, Ne, Nf
  <2> QED BY <1>1, <2>2, <2>3
<1>7. CASE fe = "OneLayerP4z"
  <2>1. /\ HasPressure(fe) /\ VelocityInterpolation(fe) = "P2xP4"
        /\ PressureIds(fe, e) = VertexIds(iomodel, e, Nv + 3 * Ne + 3 * Nf)
    BY <1>7 DEF HasPressure, StokesElements, VelocityInterpolation, PressureIds, PressureOffset, Nv, Ne, Nf
  <2>2. Kind = "penta"
    BY <1>1, <1>7 DEF HasTable, TableFor
  <2> QED BY <1>7, <2>1, <2>2 DEF NodeIds, PentaNodeIds, Kind, Nv, Ne, Nf
<1>8. CASE fe = "CrouzeixRaviart"
  <2>1. /\ HasPressure(fe) /\ VelocityInterpolation(fe) = "P2bubble"
        /\ PressureIds(fe, e) = OwnIds(iomodel, e, AfterP2 + Nel)
    BY <1>8 DEF HasPressure, StokesElements, VelocityInterpolation, PressureIds, PressureOffset, Nel
  <2>2. CASE Kind = "tria"
    <3>1. Nv \in Nat /\ Ne \in Nat
      BY IoFacts DEF Sound
    <3>2. AfterP2 = Nv + Ne
      BY <2>2, <3>1, SMTT(30) DEF AfterP2, Kind, Nv, Ne
    <3> QED BY <1>8, <2>1, <2>2, <3>2 DEF NodeIds, TriaNodeIds, Kind, Nv, Ne, Nel
  <2>3. CASE Kind = "penta"
    <3>1. AfterP2 = Nv + Ne + Nf
      BY <2>3 DEF AfterP2, Kind, Nv, Ne, Nf
    <3> QED BY <1>8, <2>1, <2>3, <3>1 DEF NodeIds, PentaNodeIds, Kind, Nv, Ne, Nf, Nel
  <2>4. Kind \in {"tria", "penta"}
    BY <1>1, <1>8 DEF HasTable, TableFor
  <2> QED BY <2>2, <2>3, <2>4
<1> QED BY <1>2, <1>3, <1>4, <1>5, <1>6, <1>7, <1>8 DEF StokesElements

LEMMA PressureFirst ==
  ASSUME Partitioned, NEW fe, HasPressure(fe), fe = "OneLayerP4z" => Kind = "penta"
  PROVE  First5(ShapeOf(fe)) = PressureOffset(fe) /\ PressureOffset(fe) \in Int
<1> DEFINE v == VelocityInterpolation(fe)
<1> DEFINE sh == ShapeOf(fe)
<1>1. GoodShape(sh) /\ Velocity(sh, v)
  BY ShapeIsGood
<1>2. v \in {"P1", "P1bubble", "P2", "P2xP4", "P2bubble"}
  BY DEF VelocityInterpolation, HasPressure, StokesElements
<1> HIDE DEF sh
<1>3. sh.corner = 1
  BY <1>1, <1>2 DEF Velocity, Corner
<1>4. /\ sh.stride = 0 => First3(sh) = Nv
      /\ sh.stride = 1 => First3(sh) = Nv + Ne
      /\ sh.stride = 3 => First3(sh) = Nv + 3 * Ne
      /\ sh.stride = 0 /\ sh.quad = 0 => First4(sh) = Nv
      /\ sh.stride = 1 /\ sh.quad = 0 => First4(sh) = Nv + Ne
      /\ sh.stride = 1 /\ sh.quad = 1 => First4(sh) = Nv + Ne + Nf
      /\ sh.stride = 3 /\ sh.quad = 3 => First4(sh) = Nv + 3 * Ne + 3 * Nf
      /\ Nv \in Nat /\ Ne \in Nat /\ First3(sh) \in Nat /\ First4(sh) \in Nat
  BY <1>1, <1>3, AfterCorners
<1>5. Nel \in Nat /\ First5(sh) = First4(sh) + Room(sh.bubble, Nel)
  BY IoFacts DEF First5
<1>6. sh.bubble = 0 => First5(sh) = First4(sh)
  BY <1>4, <1>5 DEF Room
<1>7. sh.bubble = 1 => First5(sh) = First4(sh) + Nel
  BY <1>4, <1>5 DEF Room
<1>8. First5(sh) \in Int
  BY <1>1, <1>4, <1>5, <1>6, <1>7 DEF GoodShape, Shapes
<1>9. CASE fe \in {"P1P1", "P1P1GLS"}
  <2>1. sh.stride = 0 /\ sh.quad = 0 /\ sh.bubble = 0
    BY <1>1, <1>9 DEF Velocity, VelocityInterpolation, StrideOn, UpOf, QuadOf, BubbleOf
  <2> QED BY <1>4, <1>6, <1>8, <1>9, <2>1 DEF PressureOffset, sh, Nv
<1>10. CASE fe \in {"MINI", "MINIcondensed"}
  <2>1. sh.stride = 0 /\ sh.quad = 0 /\ sh.bubble = 1
    BY <1>1, <1>10 DEF Velocity, VelocityInterpolation, StrideOn, UpOf, QuadOf, BubbleOf
  <2> QED BY <1>4, <1>7, <1>8, <1>10, <2>1 DEF PressureOffset, sh, Nv, Nel
<1>11. CASE fe \in {"TaylorHood", "XTaylorHood"}
  <2>1. sh.stride = 1 /\ sh.bubble = 0 /\ sh.quad = IF Kind = "penta" THEN 1 ELSE 0
    BY <1>1, <1>11 DEF Velocity, VelocityInterpolation, StrideOn, UpOf, QuadOf, BubbleOf
  <2>2. First5(sh) = Nv + Ne + IF Kind = "penta" THEN Nf ELSE 0
    BY <1>4, <1>6, <2>1
  <2>3. PressureOffset(fe) = AfterP2
    BY <1>11 DEF PressureOffset
  <2> QED BY <1>8, <2>2, <2>3 DEF AfterP2, sh, Nv, Ne, Nf, Kind
<1>12. CASE fe = "OneLayerP4z"
  <2>1. sh.stride = 3 /\ sh.bubble = 0 /\ sh.quad = 3
    BY <1>1, <1>12 DEF Velocity, VelocityInterpolation, StrideOn, UpOf, QuadOf, BubbleOf
  <2>2. First5(sh) = Nv + 3 * Ne + 3 * Nf
    BY <1>4, <1>6, <2>1
  <2>3. PressureOffset(fe) = Nv + 3 * Ne + 3 * Nf
    BY <1>12 DEF PressureOffset, Nv, Ne, Nf
  <2> QED BY <1>8, <2>2, <2>3 DEF sh
<1>13. CASE fe = "CrouzeixRaviart"
  <2>1. sh.stride = 1 /\ sh.bubble = 1 /\ sh.quad = IF Kind = "penta" THEN 1 ELSE 0
    BY <1>1, <1>13 DEF Velocity, VelocityInterpolation, StrideOn, UpOf, QuadOf, BubbleOf
  <2>2. First5(sh) = Nv + Ne + (IF Kind = "penta" THEN Nf ELSE 0) + Nel
    BY <1>4, <1>7, <2>1
  <2>3. PressureOffset(fe) = AfterP2 + Nel
    BY <1>13 DEF PressureOffset, Nel
  <2> QED BY <1>8, <2>2, <2>3 DEF AfterP2, sh, Nv, Ne, Nf, Kind
<1> QED BY <1>9, <1>10, <1>11, <1>12, <1>13 DEF HasPressure, StokesElements

-----------------------------------------------------------------------------
(***************************************************************************)
(* What an element sees: its places are those of its names.                *)
(***************************************************************************)
FieldOf(fe, nm) == IF fe \notin StokesElements THEN "any" ELSE IF nm[1] = 5 THEN "FSpressure" ELSE "FSvelocity"

PlaceIs(fe, nm) == [field |-> FieldOf(fe, nm), point |-> PointOf(ShapeOf(fe), nm), own |-> OwnOf(ShapeOf(fe), nm)]

Placed(field, own, t, e) == [k \in DOMAIN t |-> [field |-> field, point |-> Image(e, t[k]), own |-> own]]

ShowsAs(fe, e, s, p, S, n, w) ==
  /\ w \in [1..n -> S] /\ s = [k \in 1..n |-> IdOf(ShapeOf(fe), w[k])] /\ p = [k \in 1..n |-> PlaceIs(fe, w[k])]
  /\ \A nm \in S : \E k \in 1..n : w[k] = nm

Shows(fe, e, s, p, S) == \E n \in Nat : \E w : ShowsAs(fe, e, s, p, S, n, w)

LEMMA ShowsFrom ==
  ASSUME NEW fe, NEW e, NEW s, NEW t, NEW S, Lists(ShapeOf(fe), e, s, t, S), NEW field, NEW own,
         \A nm \in S : FieldOf(fe, nm) = field /\ OwnOf(ShapeOf(fe), nm) = own
  PROVE  Shows(fe, e, s, Placed(field, own, t, e), S)
<1> DEFINE sh == ShapeOf(fe)
<1>1. PICK n \in Nat : \E w : ListsAs(sh, e, s, t, S, n, w)
  BY DEF Lists
<1>2. PICK w : ListsAs(sh, e, s, t, S, n, w)
  BY <1>1
<1> DEFINE p == Placed(field, own, t, e)
<1>3. /\ w \in [1..n -> S] /\ s = [k \in 1..n |-> IdOf(sh, w[k])] /\ t = [k \in 1..n |-> t[k]]
      /\ \A k \in 1..n : Image(e, t[k]) = PointOf(sh, w[k])
      /\ \A nm \in S : \E k \in 1..n : w[k] = nm
  BY <1>2 DEF ListsAs
<1>4. DOMAIN t = 1..n
  BY <1>3
<1>5. p = [k \in 1..n |-> [field |-> field, point |-> Image(e, t[k]), own |-> own]]
  BY <1>4 DEF Placed
<1>6. \A k \in 1..n : p[k] = PlaceIs(fe, w[k])
  <2> SUFFICES ASSUME NEW k \in 1..n
               PROVE  p[k] = PlaceIs(fe, w[k])
    OBVIOUS
  <2>1. w[k] \in S
    BY <1>3
  <2>2. FieldOf(fe, w[k]) = field /\ OwnOf(sh, w[k]) = own
    BY <2>1
  <2>3. p[k] = [field |-> field, point |-> Image(e, t[k]), own |-> own]
    <3> HIDE DEF p
    <3> QED BY <1>5
  <2>4. p[k] = [field |-> FieldOf(fe, w[k]), point |-> PointOf(sh, w[k]), own |-> OwnOf(sh, w[k])]
    BY <1>3, <2>2, <2>3
  <2> QED BY <2>4 DEF PlaceIs
<1>7. p = [k \in 1..n |-> p[k]]
  BY <1>5
<1> HIDE DEF p
<1>8. p = [k \in 1..n |-> PlaceIs(fe, w[k])]
  BY <1>6, <1>7
<1>9. ShowsAs(fe, e, s, p, S, n, w)
  BY <1>3, <1>8 DEF ShowsAs
<1> QED BY <1>9 DEF Shows, p

LEMMA ShowsJoin ==
  ASSUME NEW fe, NEW e, NEW s, NEW p, NEW S, Shows(fe, e, s, p, S),
         NEW u, NEW q, NEW U, Shows(fe, e, u, q, U)
  PROVE  Shows(fe, e, s \o u, p \o q, S \cup U)
<1> DEFINE sh == ShapeOf(fe)
<1>1. PICK n \in Nat : \E w : ShowsAs(fe, e, s, p, S, n, w)
  BY DEF Shows
<1>2. PICK w : ShowsAs(fe, e, s, p, S, n, w)
  BY <1>1
<1>3. PICK m \in Nat : \E x : ShowsAs(fe, e, u, q, U, m, x)
  BY DEF Shows
<1>4. PICK x : ShowsAs(fe, e, u, q, U, m, x)
  BY <1>3
<1> DEFINE y == [k \in 1..(n + m) |-> IF k <= n THEN w[k] ELSE x[k - n]]
<1>5. \A k \in 1..(n + m) : /\ k <= n => k \in 1..n
                            /\ ~(k <= n) => k - n \in 1..m
  OBVIOUS
<1>6. /\ \A k \in 1..n : w[k] \in S /\ s[k] = IdOf(sh, w[k]) /\ p[k] = PlaceIs(fe, w[k])
      /\ s = [k \in 1..n |-> s[k]] /\ p = [k \in 1..n |-> p[k]] /\ \A nm \in S : \E k \in 1..n : w[k] = nm
  BY <1>2 DEF ShowsAs
<1>7. /\ \A k \in 1..m : x[k] \in U /\ u[k] = IdOf(sh, x[k]) /\ q[k] = PlaceIs(fe, x[k])
      /\ u = [k \in 1..m |-> u[k]] /\ q = [k \in 1..m |-> q[k]] /\ \A nm \in U : \E k \in 1..m : x[k] = nm
  BY <1>4 DEF ShowsAs
<1>8. /\ s \o u = [k \in 1..(n + m) |-> IF k <= n THEN s[k] ELSE u[k - n]]
      /\ p \o q = [k \in 1..(n + m) |-> IF k <= n THEN p[k] ELSE q[k - n]]
  <2>1. s \o u = [k \in 1..(n + m) |-> IF k <= n THEN s[k] ELSE u[k - n]]
    BY <1>6, <1>7, ConcatOf
  <2>2. p \o q = [k \in 1..(n + m) |-> IF k <= n THEN p[k] ELSE q[k - n]]
    BY <1>6, <1>7, ConcatOf
  <2> QED BY <2>1, <2>2
<1> HIDE DEF sh
<1>9. ASSUME NEW k \in 1..(n + m)
      PROVE  /\ y[k] \in S \cup U /\ (s \o u)[k] = IdOf(sh, y[k])
             /\ (p \o q)[k] = PlaceIs(fe, y[k])
  <2>1. CASE k <= n
    <3>1. y[k] = w[k] /\ (s \o u)[k] = s[k] /\ (p \o q)[k] = p[k] /\ k \in 1..n
      BY <1>5, <1>8, <2>1
    <3> QED BY <1>6, <3>1
  <2>2. CASE ~(k <= n)
    <3>1. y[k] = x[k - n] /\ (s \o u)[k] = u[k - n] /\ (p \o q)[k] = q[k - n] /\ k - n \in 1..m
      BY <1>5, <1>8, <2>2
    <3> QED BY <1>7, <3>1
  <2> QED BY <2>1, <2>2
<1>10. ASSUME NEW nm \in S \cup U
       PROVE  \E k \in 1..(n + m) : y[k] = nm
  <2>1. CASE nm \in S
    <3>1. PICK k \in 1..n : w[k] = nm
      BY <1>6, <2>1
    <3>2. k \in 1..(n + m) /\ k <= n
      OBVIOUS
    <3> QED BY <3>1, <3>2
  <2>2. CASE nm \in U
    <3>1. PICK k \in 1..m : x[k] = nm
      BY <1>7, <2>2
    <3>2. k + n \in 1..(n + m) /\ ~(k + n <= n) /\ (k + n) - n = k
      OBVIOUS
    <3> QED BY <3>1, <3>2
  <2> QED BY <2>1, <2>2
<1>11. y \in [1..(n + m) -> S \cup U]
  BY <1>9
<1>12. s \o u = [k \in 1..(n + m) |-> IdOf(sh, y[k])]
  <2>1. s \o u = [k \in 1..(n + m) |-> (s \o u)[k]]
    BY <1>8
  <2> HIDE DEF y
  <2> QED BY <1>9, <2>1
<1>13. p \o q = [k \in 1..(n + m) |-> PlaceIs(fe, y[k])]
  <2>1. p \o q = [k \in 1..(n + m) |-> (p \o q)[k]]
    BY <1>8
  <2> HIDE DEF y
  <2> QED BY <1>9, <2>1
<1> HIDE DEF y
<1>14. ShowsAs(fe, e, s \o u, p \o q, S \cup U, n + m, y)
  BY <1>9, <1>10, <1>11, <1>12, <1>13 DEF ShowsAs, sh
<1> QED BY <1>14 DEF Shows

LEMMA PlacesAre ==
  ASSUME NEW fe, NEW e
  PROVE  LET v == VelocityInterpolation(fe)
             p == PressureInterpolation(fe)
         IN  NodePlaces(iomodel, fe, e) =
               IF fe \in StokesElements
                 THEN (IF v = "None" THEN << >>
                       ELSE Placed("FSvelocity", IF v = "P1DG" THEN e ELSE 0, Points(Kind, v), e))
                        \o (IF p = "None" THEN << >>
                            ELSE Placed("FSpressure", IF p = "P1DG" THEN e ELSE 0, Points(Kind, p), e))
               ELSE IF fe = "None" THEN << >> ELSE Placed("any", IF fe = "P1DG" THEN e ELSE 0, Points(Kind, fe), e)
  BY DEF NodePlaces, Placed, Image, Kind

ElementShows(fe, e) ==
  \E S : /\ Shows(fe, e, NodeIds(iomodel, fe, e), NodePlaces(iomodel, fe, e), S)
         /\ \A nm : nm \in S <=> Has(ShapeOf(fe), e, nm)

LEMMA FieldsOfNames ==
  ASSUME Sound, NEW fe, NEW e \in 1..Nel, NEW nm
  PROVE  /\ VelocityName(ShapeOf(fe), e, nm) =>
              /\ FieldOf(fe, nm) = (IF fe \in StokesElements THEN "FSvelocity" ELSE "any")
              /\ OwnOf(ShapeOf(fe), nm) = 0
         /\ PressureName(ShapeOf(fe), e, nm) =>
              /\ FieldOf(fe, nm) = (IF fe \in StokesElements THEN "FSpressure" ELSE "any")
              /\ OwnOf(ShapeOf(fe), nm) = (IF PressOf(fe) = "own" THEN e ELSE 0)
<1> DEFINE sh == ShapeOf(fe)
<1>1. GoodShape(sh) /\ sh.press = PressOf(fe)
  BY ShapeIsGood
<1>2. VelocityName(sh, e, nm) => nm[1] # 5
  BY <1>1, HasIsName DEF Has
<1>3. PressureName(sh, e, nm) => nm[1] = 5 /\ (PressOf(fe) = "own" => nm[2] = e)
  BY <1>1 DEF PressureName
<1>4. ASSUME VelocityName(sh, e, nm)
      PROVE  /\ FieldOf(fe, nm) = (IF fe \in StokesElements THEN "FSvelocity" ELSE "any")
             /\ OwnOf(sh, nm) = 0
  BY <1>2, <1>4 DEF FieldOf, OwnOf
<1>5. ASSUME PressureName(sh, e, nm)
      PROVE  /\ FieldOf(fe, nm) = (IF fe \in StokesElements THEN "FSpressure" ELSE "any")
             /\ OwnOf(sh, nm) = (IF PressOf(fe) = "own" THEN e ELSE 0)
  BY <1>1, <1>3, <1>5 DEF FieldOf, OwnOf
<1> QED BY <1>4, <1>5

LEMMA OwnShown ==
  ASSUME Sound, Kind = "tria", NEW e \in 1..Nel
  PROVE  ElementShows("P1DG", e)
<1> DEFINE fe == "P1DG"
<1> DEFINE sh == ShapeOf(fe)
<1>0. Partitioned
  BY DEF Sound
<1>1. VelocityInterpolation(fe) = fe /\ fe \notin StokesElements /\ PressOf(fe) = "own"
  BY DEF VelocityInterpolation, StokesElements, PressOf
<1>2. GoodShape(sh) /\ Velocity(sh, fe) /\ sh.press = "own"
  <2> HIDE DEF fe
  <2> QED BY <1>1, ShapeIsGood
<1>3. sh.corner = 0 /\ sh.up = 0 /\ sh.level = 0 /\ sh.stride = 0 /\ sh.quad = 0 /\ sh.bubble = 0
  BY <1>2 DEF Velocity, Corner, UpOf, LevelOf, StrideOn, QuadOf, BubbleOf
<1>4. First5(sh) = 0
  <2>1. Nv \in Nat /\ Ne \in Nat /\ Nel \in Nat /\ NQuads = 0
    BY <1>0, IoFacts DEF NQuads
  <2> HIDE DEF sh
  <2> QED BY <1>3, <2>1 DEF First5, First4, First3, First2, Room
<1> DEFINE first == 0
<1>5. first \in Int /\ first = First5(sh)
  BY <1>4
<1> HIDE DEF first
<1>6. Lists(sh, e, OwnIds(iomodel, e, first), Corners(Nc), OwnPressures(e))
  BY <1>2, <1>5, OwnListed
<1>7. \A nm : nm \in OwnPressures(e) <=> Has(sh, e, nm)
  <2>1. \A nm : ~VelocityName(sh, e, nm)
    <3> HIDE DEF sh
    <3>1. \A nm : ~EdgeName(sh, e, nm)
      BY <1>3, EdgesUnnamed
    <3>2. \A nm : ~QuadName(sh, e, nm) /\ ~BubbleName(sh, e, nm)
      BY <1>3, NoQuadNames, NoBubbleName
    <3>3. \A nm : ~CornerName(sh, e, nm)
      BY <1>3 DEF CornerName
    <3> QED BY <3>1, <3>2, <3>3 DEF VelocityName
  <2>2. \A nm : PressureName(sh, e, nm) <=> nm \in OwnPressures(e)
    BY <1>2 DEF PressureName, OwnPressures
  <2> QED BY <2>1, <2>2 DEF Has
<1>8. \A nm \in OwnPressures(e) : FieldOf(fe, nm) = "any" /\ OwnOf(sh, nm) = e
  <2> HIDE DEF fe
  <2>1. \A nm \in OwnPressures(e) : nm[1] = 5 /\ nm[2] = e
    BY DEF OwnPressures
  <2> QED BY <1>1, <1>2, <2>1 DEF FieldOf, OwnOf
<1>9. /\ NodeIds(iomodel, fe, e) = OwnIds(iomodel, e, first)
      /\ NodePlaces(iomodel, fe, e) = Placed("any", e, Corners(Nc), e)
  <2>1. NodeIds(iomodel, fe, e) = OwnIds(iomodel, e, first)
    BY DEF NodeIds, TriaNodeIds, Kind, first
  <2>2. Points(Kind, fe) = Corners(Nc)
    BY DEF Points, TriaPoints, Nc, CornersOf
  <2>3. NodePlaces(iomodel, fe, e) = Placed("any", e, Points(Kind, fe), e)
    BY <1>1, PlacesAre
  <2> QED BY <2>1, <2>2, <2>3
<1> HIDE DEF fe
<1>10. Shows(fe, e, OwnIds(iomodel, e, first), Placed("any", e, Corners(Nc), e), OwnPressures(e))
  BY <1>6, <1>8, ShowsFrom
<1>11. ElementShows(fe, e)
  BY <1>7, <1>9, <1>10 DEF ElementShows
<1> QED BY <1>11 DEF fe

LEMMA VelocityShown ==
  ASSUME Sound, NEW fe, HasTable(fe), fe # "P1DG", NEW e \in 1..Nel
  PROVE  LET v == VelocityInterpolation(fe)
         IN  \E S : /\ Shows(fe, e, NodeIds(iomodel, v, e),
                             Placed(IF fe \in StokesElements THEN "FSvelocity" ELSE "any", 0, Points(Kind, v), e), S)
                    /\ \A nm : nm \in S <=> VelocityName(ShapeOf(fe), e, nm)
<1> DEFINE v == VelocityInterpolation(fe)
<1> DEFINE sh == ShapeOf(fe)
<1>1. GoodShape(sh) /\ Velocity(sh, v)
  BY ShapeIsGood
<1>2. HasVelocityTable(v)
  BY VelocityHasTable
<1>3. VelocityListed(sh, e, NodeIds(iomodel, v, e), Points(Kind, v))
  <2> HIDE DEF v, sh
  <2> QED BY <1>1, <1>2, VelocityTable
<1>4. PICK S : Lists(sh, e, NodeIds(iomodel, v, e), Points(Kind, v), S) /\ \A nm : nm \in S <=> VelocityName(sh, e, nm)
  BY <1>3 DEF VelocityListed
<1> DEFINE field == IF fe \in StokesElements THEN "FSvelocity" ELSE "any"
<1> DEFINE own == 0
<1>5. \A nm \in S : FieldOf(fe, nm) = field /\ OwnOf(sh, nm) = own
  BY <1>4, FieldsOfNames
<1> HIDE DEF field, own, v
<1>6. Shows(fe, e, NodeIds(iomodel, v, e), Placed(field, own, Points(Kind, v), e), S)
  BY <1>4, <1>5, ShowsFrom
<1> QED BY <1>4, <1>6 DEF field, own, v

LEMMA PressureShown ==
  ASSUME Sound, NEW fe, HasTable(fe), HasPressure(fe), NEW e \in 1..Nel
  PROVE  LET p == PressureInterpolation(fe)
         IN  \E S : /\ Shows(fe, e, PressureIds(fe, e),
                             Placed("FSpressure", IF p = "P1DG" THEN e ELSE 0, Points(Kind, p), e), S)
                    /\ \A nm : nm \in S <=> PressureName(ShapeOf(fe), e, nm)
<1> DEFINE p == PressureInterpolation(fe)
<1> DEFINE sh == ShapeOf(fe)
<1>0. Partitioned /\ Kind \in {"tria", "tetra", "penta"}
  BY KindIs DEF Sound
<1>1. GoodShape(sh) /\ sh.press = PressOf(fe)
  BY ShapeIsGood
<1>2. fe = "OneLayerP4z" => Kind = "penta"
  BY <1>0 DEF HasTable, TableFor, StokesElements
<1> DEFINE first == PressureOffset(fe)
<1>3. first = First5(sh) /\ first \in Int
  BY <1>0, <1>2, PressureFirst
<1> DEFINE own == IF p = "P1DG" THEN e ELSE 0
<1>4. /\ PressOf(fe) = IF fe = "CrouzeixRaviart" THEN "own" ELSE "vertex"
      /\ p = IF fe = "CrouzeixRaviart" THEN "P1DG" ELSE "P1"
  BY DEF HasPressure, PressOf, PressureInterpolation, StokesElements
<1>5. Points(Kind, p) = Corners(Nc)
  <2>1. CASE fe = "CrouzeixRaviart"
    <3>1. Kind \in {"tria", "penta"}
      BY <1>0, <2>1 DEF HasTable, TableFor
    <3> QED BY <1>4, <2>1, <3>1 DEF Points, TriaPoints, PentaPoints, Nc, CornersOf
  <2>2. CASE fe # "CrouzeixRaviart"
    BY <1>0, <1>4, <2>2 DEF Points, TriaPoints, TetraPoints, PentaPoints, Nc, CornersOf
  <2> QED BY <2>1, <2>2
<1>6. \A nm : PressureName(sh, e, nm) => FieldOf(fe, nm) = "FSpressure" /\ OwnOf(sh, nm) = own
  <2>1. fe \in StokesElements
    BY DEF HasPressure
  <2>2. own = (IF PressOf(fe) = "own" THEN e ELSE 0)
    BY <1>4
  <2> HIDE DEF own, p
  <2> QED BY <2>1, <2>2, FieldsOfNames
<1>7. CASE fe = "CrouzeixRaviart"
  <2>1. sh.press = "own" /\ PressureIds(fe, e) = OwnIds(iomodel, e, first)
    BY <1>1, <1>4, <1>7 DEF PressureIds
  <2>2. \A nm : nm \in OwnPressures(e) <=> PressureName(sh, e, nm)
    BY <2>1 DEF PressureName, OwnPressures
  <2> HIDE DEF first, own
  <2>3. Lists(sh, e, PressureIds(fe, e), Points(Kind, p), OwnPressures(e))
    <3> HIDE DEF sh, p
    <3>1. Lists(sh, e, OwnIds(iomodel, e, first), Corners(Nc), OwnPressures(e))
      BY <1>3, <2>1, OwnListed
    <3> QED BY <1>5, <2>1, <3>1
  <2>4. \A nm \in OwnPressures(e) : FieldOf(fe, nm) = "FSpressure" /\ OwnOf(sh, nm) = own
    BY <1>6, <2>2
  <2>5. Shows(fe, e, PressureIds(fe, e), Placed("FSpressure", own, Points(Kind, p), e), OwnPressures(e))
    <3> DEFINE field == "FSpressure"
    <3>1. \A nm \in OwnPressures(e) : FieldOf(fe, nm) = field /\ OwnOf(sh, nm) = own
      BY <2>4
    <3> HIDE DEF field, p
    <3>2. Shows(fe, e, PressureIds(fe, e), Placed(field, own, Points(Kind, p), e), OwnPressures(e))
      BY <2>3, <3>1, ShowsFrom
    <3> QED BY <3>2 DEF field
  <2> QED BY <2>2, <2>5 DEF own
<1>8. CASE fe # "CrouzeixRaviart"
  <2>1. sh.press = "vertex" /\ PressureIds(fe, e) = VertexIds(iomodel, e, first)
    BY <1>1, <1>4, <1>8 DEF PressureIds
  <2>2. \A nm : nm \in VertexPressures(e) <=> PressureName(sh, e, nm)
    BY <2>1 DEF PressureName, VertexPressures
  <2> HIDE DEF first, own
  <2>3. Lists(sh, e, PressureIds(fe, e), Points(Kind, p), VertexPressures(e))
    <3> HIDE DEF sh, p
    <3>1. Lists(sh, e, VertexIds(iomodel, e, first), Corners(Nc), VertexPressures(e))
      BY <1>3, <2>1, PressuresListed
    <3> QED BY <1>5, <2>1, <3>1
  <2>4. \A nm \in VertexPressures(e) : FieldOf(fe, nm) = "FSpressure" /\ OwnOf(sh, nm) = own
    BY <1>6, <2>2
  <2>5. Shows(fe, e, PressureIds(fe, e), Placed("FSpressure", own, Points(Kind, p), e), VertexPressures(e))
    <3> DEFINE field == "FSpressure"
    <3>1. \A nm \in VertexPressures(e) : FieldOf(fe, nm) = field /\ OwnOf(sh, nm) = own
      BY <2>4
    <3> HIDE DEF field, p
    <3>2. Shows(fe, e, PressureIds(fe, e), Placed(field, own, Points(Kind, p), e), VertexPressures(e))
      BY <2>3, <3>1, ShowsFrom
    <3> QED BY <3>2 DEF field
  <2> QED BY <2>2, <2>5 DEF own
<1> QED BY <1>7, <1>8

LEMMA NothingAfter ==
  ASSUME NEW n \in Nat, NEW s, s = [k \in 1..n |-> s[k]]
  PROVE  s \o << >> = s
<1> DEFINE m == 0
<1> DEFINE t == << >>
<1>1. m \in Nat /\ t = [k \in 1..m |-> t[k]]
  OBVIOUS
<1>2. \A k \in 1..(n + m) : k <= n /\ n + m = n
  OBVIOUS
<1>3. n + m = n
  OBVIOUS
<1> HIDE DEF m, t
<1>4. s \o t = [k \in 1..(n + m) |-> IF k <= n THEN s[k] ELSE t[k - n]]
  BY <1>1, ConcatOf
<1>5. s \o t = [k \in 1..n |-> s[k]]
  BY <1>2, <1>3, <1>4
<1> QED BY <1>5 DEF t

(***************************************************************************)
(* What an element asks for.  For every finite element that has a table,   *)
(* the ids that Tria, Tetra and Penta::Update compute are those of the     *)
(* nodes of the element, listed as its basis functions list their points   *)
(* (TriaRef, TetraRef, PentaRef): the k-th id is that of the node at the   *)
(* k-th point.                                                             *)
(***************************************************************************)
THEOREM ElementsShow ==
  ASSUME Sound, NEW fe, HasTable(fe), NEW e \in 1..Nel
  PROVE  ElementShows(fe, e)
<1> DEFINE v == VelocityInterpolation(fe)
<1> DEFINE p == PressureInterpolation(fe)
<1> DEFINE sh == ShapeOf(fe)
<1>0. Kind \in {"tria", "tetra", "penta"}
  BY KindIs DEF Sound
<1>1. sh.press = PressOf(fe)
  BY ShapeIsGood
<1>2. CASE fe = "P1DG"
  <2>1. Kind = "tria"
    BY <1>0, <1>2 DEF HasTable, TableFor, ScalarElements, StokesElements
  <2> QED BY <1>2, <2>1, OwnShown
<1>3. ASSUME fe # "P1DG"
      PROVE  \E S : /\ Shows(fe, e, NodeIds(iomodel, v, e),
                             Placed(IF fe \in StokesElements THEN "FSvelocity" ELSE "any", 0, Points(Kind, v), e), S)
                    /\ \A nm : nm \in S <=> VelocityName(sh, e, nm)
  BY <1>3, VelocityShown
<1>4. (v # "None" /\ v # "P1DG") \/ fe = "P1DG" \/ fe = "None"
  BY DEF VelocityInterpolation
<1>5. fe # "None"
  BY <1>0 DEF HasTable, TableFor, ScalarElements, StokesElements
<1>6. CASE ~HasPressure(fe) /\ fe # "P1DG"
  <2>1. PressOf(fe) = "none"
    BY <1>6 DEF PressOf, HasPressure, StokesElements
  <2>2. \A nm : Has(sh, e, nm) <=> VelocityName(sh, e, nm)
    BY <1>1, <2>1 DEF Has, PressureName
  <2>3. NodeIds(iomodel, fe, e) = NodeIds(iomodel, v, e)
    BY <1>6, TableParts
  <2>4. PICK S : /\ Shows(fe, e, NodeIds(iomodel, v, e),
                          Placed(IF fe \in StokesElements THEN "FSvelocity" ELSE "any", 0, Points(Kind, v), e), S)
                 /\ \A nm : nm \in S <=> VelocityName(sh, e, nm)
    BY <1>3, <1>6
  <2>5. CASE fe \notin StokesElements
    <3>1. v = fe
      BY <2>5 DEF VelocityInterpolation, StokesElements
    <3>2. NodePlaces(iomodel, fe, e) = Placed("any", 0, Points(Kind, v), e)
      BY <1>5, <1>6, <2>5, <3>1, PlacesAre
    <3> QED BY <2>2, <2>3, <2>4, <2>5, <3>2 DEF ElementShows
  <2>6. CASE fe \in StokesElements
    <3>1. p = "None"
      BY <1>6, <2>6 DEF PressureInterpolation, HasPressure
    <3> DEFINE pl == Placed("FSvelocity", 0, Points(Kind, v), e)
    <3>2. NodePlaces(iomodel, fe, e) = pl \o << >>
      BY <1>4, <1>5, <1>6, <2>6, <3>1, PlacesAre
    <3>3. \E n \in Nat : pl = [k \in 1..n |-> pl[k]]
      <4>1. Shows(fe, e, NodeIds(iomodel, v, e), pl, S)
        BY <2>4, <2>6
      <4> HIDE DEF pl
      <4> QED BY <4>1 DEF Shows, ShowsAs
    <3>4. pl \o << >> = pl
      <4> HIDE DEF pl
      <4> QED BY <3>3, NothingAfter
    <3>5. Shows(fe, e, NodeIds(iomodel, fe, e), NodePlaces(iomodel, fe, e), S)
      BY <2>3, <2>4, <2>6, <3>2, <3>4
    <3> QED BY <2>2, <2>4, <3>5 DEF ElementShows
  <2> QED BY <2>5, <2>6
<1>7. CASE HasPressure(fe)
  <2>1. fe \in StokesElements /\ fe # "P1DG" /\ p # "None"
    BY <1>7 DEF HasPressure, StokesElements, PressureInterpolation
  <2> DEFINE q == Placed("FSpressure", IF p = "P1DG" THEN e ELSE 0, Points(Kind, p), e)
  <2> DEFINE u == Placed("FSvelocity", 0, Points(Kind, v), e)
  <2>2. PICK S : Shows(fe, e, NodeIds(iomodel, v, e), u, S) /\ \A nm : nm \in S <=> VelocityName(sh, e, nm)
    BY <1>3, <2>1
  <2>3. PICK T : Shows(fe, e, PressureIds(fe, e), q, T) /\ \A nm : nm \in T <=> PressureName(sh, e, nm)
    BY <1>7, PressureShown
  <2>4. NodePlaces(iomodel, fe, e) = u \o q
    BY <1>4, <1>5, <2>1, PlacesAre
  <2>5. NodeIds(iomodel, fe, e) = NodeIds(iomodel, v, e) \o PressureIds(fe, e)
    BY <1>7, TableParts
  <2> HIDE DEF u, q, v, sh, p
  <2>6. Shows(fe, e, NodeIds(iomodel, v, e) \o PressureIds(fe, e), u \o q, S \cup T)
    BY <2>2, <2>3, ShowsJoin
  <2>7. \A nm : nm \in S \cup T <=> Has(sh, e, nm)
    BY <2>2, <2>3 DEF Has
  <2> QED BY <2>4, <2>5, <2>6, <2>7 DEF ElementShows, sh
<1> QED BY <1>2, <1>6, <1>7

-----------------------------------------------------------------------------
(***************************************************************************)
(* The lists of nodes rise.                                                *)
(***************************************************************************)
Rises(s) == \A j, k \in DOMAIN s : j < k => s[j].id < s[k].id
Below(s, t) == \A m \in Range(s), n \in Range(t) : m.id < n.id

LEMMA RisesJoin ==
  ASSUME NEW R, NEW s \in Seq(R), NEW t \in Seq(R), Rises(s), Rises(t), Below(s, t)
  PROVE  Rises(s \o t)
<1>1. /\ s \o t \in Seq(R) /\ Len(s \o t) = Len(s) + Len(t) /\ Len(s) \in Nat /\ Len(t) \in Nat
      /\ DOMAIN s = 1..Len(s) /\ DOMAIN t = 1..Len(t) /\ DOMAIN (s \o t) = 1..(Len(s) + Len(t))
      /\ \A k \in 1..(Len(s) + Len(t)) : (s \o t)[k] = IF k <= Len(s) THEN s[k] ELSE t[k - Len(s)]
  BY LenProperties, ConcatProperties
<1>2. ASSUME NEW j \in 1..(Len(s) + Len(t)), NEW k \in 1..(Len(s) + Len(t)), j < k
      PROVE  (s \o t)[j].id < (s \o t)[k].id
  <2>1. CASE k <= Len(s)
    <3>1. j \in DOMAIN s /\ k \in DOMAIN s /\ j <= Len(s)
      BY <1>1, <1>2, <2>1
    <3> QED BY <1>1, <1>2, <2>1, <3>1 DEF Rises
  <2>2. CASE j > Len(s)
    <3>1. j - Len(s) \in DOMAIN t /\ k - Len(s) \in DOMAIN t /\ j - Len(s) < k - Len(s)
          /\ ~(j <= Len(s)) /\ ~(k <= Len(s))
      BY <1>1, <1>2, <2>2
    <3> QED BY <1>1, <1>2, <3>1 DEF Rises
  <2>3. CASE j <= Len(s) /\ ~(k <= Len(s))
    <3>1. j \in DOMAIN s /\ k - Len(s) \in DOMAIN t
      BY <1>1, <1>2, <2>3
    <3>2. s[j] \in Range(s) /\ t[k - Len(s)] \in Range(t)
      BY <3>1 DEF Range
    <3> QED BY <1>1, <1>2, <2>3, <3>2 DEF Below
  <2> QED BY <1>1, <1>2, <2>1, <2>2, <2>3
<1> QED BY <1>1, <1>2 DEF Rises

LEMMA FlattenRises ==
  ASSUME NEW R, NEW n \in Nat, NEW ss \in [1..n -> Seq(R)], \A i \in 1..n : Rises(ss[i]),
         \A i, j \in 1..n : i < j => Below(ss[i], ss[j])
  PROVE  Rises(FlattenSeq(ss))
<1>1. ss \in Seq(Seq(R)) /\ Len(ss) = n /\ DOMAIN ss = 1..n
  <2>1. ss \in Seq(Seq(R))
    BY SeqDef
  <2>2. DOMAIN ss = 1..n /\ DOMAIN ss = 1..Len(ss) /\ Len(ss) \in Nat
    BY <2>1, LenProperties
  <2>3. Len(ss) = n
    BY <2>2
  <2> QED BY <2>1, <2>2, <2>3
<1>2. CASE n = 0
  <2>1. FlattenSeq(ss) = ss /\ DOMAIN ss = {}
    BY <1>1, <1>2 DEF FlattenSeq
  <2> QED BY <2>1 DEF Rises
<1>3. CASE n # 0
  <2> DEFINE F == CHOOSE f : Flattens(f, ss, n)
  <2>1. Flattens(F, ss, n)
    BY FlattenExists, SMTT(60)
  <2>2. FlattenSeq(ss) = F[n]
    BY <1>1, <1>3 DEF FlattenSeq, Flattens
  <2>3. \A i \in 1..n : F[i] = IF i = 1 THEN ss[i] ELSE F[i-1] \o ss[i]
    BY <2>1, Zenon DEF Flattens
  <2> HIDE DEF F
  <2> DEFINE Right(k) == /\ F[k] \in Seq(R) /\ Rises(F[k])
                         /\ \A x \in Range(F[k]) : \E i \in 1..k : x \in Range(ss[i])
  <2> DEFINE Good == {k \in 0..n : k = 0 \/ Right(k)}
  <2>4. ASSUME NEW k \in 1..n, k - 1 \in Good
        PROVE  k \in Good
    <3>1. ss[k] \in Seq(R) /\ Rises(ss[k]) /\ k \in 0..n
      OBVIOUS
    <3>2. CASE k = 1
      <4>1. F[k] = ss[k]
        BY <2>3, <3>2
      <4> QED BY <3>1, <4>1
    <3>3. CASE k # 1
      <4>1. Right(k - 1) /\ k - 1 \in 1..n
        BY <2>4, <3>3
      <4>2. F[k] = F[k - 1] \o ss[k]
        BY <2>3, <3>3
      <4>3. Below(F[k - 1], ss[k])
        <5> SUFFICES ASSUME NEW m \in Range(F[k - 1]), NEW x \in Range(ss[k])
                     PROVE  m.id < x.id
          BY DEF Below
        <5>1. PICK i \in 1..(k - 1) : m \in Range(ss[i])
          BY <4>1
        <5>2. i \in 1..n /\ i < k
          BY <4>1
        <5>3. Below(ss[i], ss[k])
          BY <5>2
        <5> QED BY <5>1, <5>3 DEF Below
      <4>4. F[k] \in Seq(R) /\ Range(F[k]) = Range(F[k - 1]) \cup Range(ss[k])
        BY <3>1, <4>1, <4>2, RangeOfConcat
      <4>5. Rises(F[k])
        BY <3>1, <4>1, <4>2, <4>3, RisesJoin
      <4>6. ASSUME NEW x \in Range(F[k])
            PROVE  \E i \in 1..k : x \in Range(ss[i])
        <5>1. CASE x \in Range(F[k - 1])
          <6>1. PICK i \in 1..(k - 1) : x \in Range(ss[i])
            BY <4>1, <5>1
          <6>2. i \in 1..k
            BY <4>1
          <6> QED BY <6>1, <6>2
        <5>2. CASE x \in Range(ss[k])
          <6>1. k \in 1..k
            BY <4>1
          <6> QED BY <5>2, <6>1
        <5> QED BY <4>4, <5>1, <5>2
      <4> QED BY <3>1, <4>4, <4>5, <4>6
    <3> QED BY <3>2, <3>3
  <2>5. 0 \in Good
    OBVIOUS
  <2> HIDE DEF Good
  <2>6. n \in Good
    <3>1. \A i \in 0..n : i \in Good
      BY <2>4, <2>5, UpTo
    <3> QED BY <3>1
  <2>7. Rises(F[n])
    BY <1>3, <2>6 DEF Good
  <2> QED BY <2>2, <2>7
<1> QED BY <1>2, <1>3

-----------------------------------------------------------------------------
(***************************************************************************)
(* A list of nodes makes a set of names if each of its nodes has one of    *)
(* them, each of them has a node, and the ids rise.                        *)
(***************************************************************************)
VertexOf(fe, nm) == IF nm[1] = 5 /\ PressOf(fe) = "own" THEN Place(nm[2], nm[3]) ELSE nm[2]

NodeFor(N, a, fe, n, nm) ==
  /\ n.id = N + IdOf(ShapeOf(fe), nm) /\ n.analysis = a.name
  /\ nm[1] \in {1, 5} => n.vertex = VertexOf(fe, nm)
  /\ FieldOf(fe, nm) \in {"any", n.approximation}

IsList(s) == \E R : s \in Seq(R)

Makes(N, a, fe, s, C) ==
  /\ IsList(s) /\ Rises(s)
  /\ \A n \in Range(s) : \E nm \in C : NodeFor(N, a, fe, n, nm)
  /\ \A nm \in C : \E n \in Range(s) : NodeFor(N, a, fe, n, nm)

Earlier(fe, C, D) == \A nm \in C, mm \in D : IdOf(ShapeOf(fe), nm) < IdOf(ShapeOf(fe), mm)
HaveIds(fe, C) == \A nm \in C : IdOf(ShapeOf(fe), nm) \in Int

LEMMA MakesJoin ==
  ASSUME NEW N \in Nat, NEW a, NEW fe, NEW s, NEW C, Makes(N, a, fe, s, C), NEW t, NEW D, Makes(N, a, fe, t, D),
         Earlier(fe, C, D), HaveIds(fe, C), HaveIds(fe, D)
  PROVE  Makes(N, a, fe, s \o t, C \cup D)
<1>1. PICK R : s \in Seq(R)
  BY DEF Makes, IsList
<1>2. PICK Q : t \in Seq(Q)
  BY DEF Makes, IsList
<1> DEFINE U == R \cup Q
<1>3. s \in Seq(U) /\ t \in Seq(U)
  BY <1>1, <1>2
<1> HIDE DEF U
<1>4. s \o t \in Seq(U) /\ Range(s \o t) = Range(s) \cup Range(t)
  BY <1>3, RangeOfConcat
<1>5. Below(s, t)
  <2> SUFFICES ASSUME NEW m \in Range(s), NEW n \in Range(t)
               PROVE  m.id < n.id
    BY DEF Below
  <2>1. PICK nm \in C : NodeFor(N, a, fe, m, nm)
    BY DEF Makes
  <2>2. PICK mm \in D : NodeFor(N, a, fe, n, mm)
    BY DEF Makes
  <2>3. /\ IdOf(ShapeOf(fe), nm) < IdOf(ShapeOf(fe), mm) /\ IdOf(ShapeOf(fe), nm) \in Int
        /\ IdOf(ShapeOf(fe), mm) \in Int
    BY DEF Earlier, HaveIds
  <2>4. m.id = N + IdOf(ShapeOf(fe), nm) /\ n.id = N + IdOf(ShapeOf(fe), mm)
    BY <2>1, <2>2 DEF NodeFor
  <2> QED BY <2>3, <2>4
<1>6. Rises(s \o t)
  BY <1>3, <1>5, RisesJoin DEF Makes
<1>7. \A n \in Range(s \o t) : \E nm \in C \cup D : NodeFor(N, a, fe, n, nm)
  BY <1>4 DEF Makes
<1>8. \A nm \in C \cup D : \E n \in Range(s \o t) : NodeFor(N, a, fe, n, nm)
  BY <1>4 DEF Makes
<1> QED BY <1>4, <1>6, <1>7, <1>8 DEF Makes, IsList

\* Nothing makes nothing.
LEMMA MakesNone ==
  ASSUME NEW N, NEW a, NEW fe
  PROVE  Makes(N, a, fe, << >>, {})
<1>1. << >> \in Seq({}) /\ Range(<< >>) = {} /\ DOMAIN << >> = {}
  BY EmptySeq DEF Range
<1> QED BY <1>1 DEF Makes, IsList, Rises

\* Deactivated nodes are still there.
LEMMA MakesDeactivated ==
  ASSUME NEW N, NEW a, NEW fe, NEW s, NEW C, Makes(N, a, fe, s, C), NEW R, s \in Seq(R),
         \A n \in R : n = [id |-> n.id, sid |-> n.sid, vertex |-> n.vertex, analysis |-> n.analysis,
                           approximation |-> n.approximation, frozen |-> n.frozen]
  PROVE  Makes(N, a, fe, HardDeactivate(s), C)
<1> DEFINE Off(n) == [n EXCEPT !.frozen = TRUE]
<1> DEFINE d == HardDeactivate(s)
<1>1. d = [k \in DOMAIN s |-> Off(s[k])] /\ DOMAIN d = DOMAIN s /\ Len(s) \in Nat /\ DOMAIN s = 1..Len(s)
      /\ \A k \in DOMAIN s : s[k] \in R
  BY LenProperties, ElementOfSeq DEF HardDeactivate
<1>2. ASSUME NEW n \in R
      PROVE  /\ Off(n).id = n.id /\ Off(n).analysis = n.analysis /\ Off(n).vertex = n.vertex
             /\ Off(n).approximation = n.approximation
  BY <1>2
<1> HIDE DEF Off, d
<1>3. ASSUME NEW n \in R, NEW nm
      PROVE  NodeFor(N, a, fe, n, nm) <=> NodeFor(N, a, fe, Off(n), nm)
  BY <1>2, <1>3 DEF NodeFor
<1>4. d \in Seq({Off(n) : n \in R})
  BY <1>1, SeqDef
<1>5. Rises(d)
  BY <1>1, <1>2 DEF Rises, Makes
<1>6. \A x \in Range(d) : \E n \in Range(s) : n \in R /\ x = Off(n)
  BY <1>1 DEF Range
<1>7. \A n \in Range(s) : n \in R /\ Off(n) \in Range(d)
  BY <1>1 DEF Range
<1>8. \A x \in Range(d) : \E nm \in C : NodeFor(N, a, fe, x, nm)
  BY <1>3, <1>6 DEF Makes
<1>9. \A nm \in C : \E x \in Range(d) : NodeFor(N, a, fe, x, nm)
  BY <1>3, <1>7 DEF Makes
<1> QED BY <1>4, <1>5, <1>8, <1>9 DEF Makes, IsList, d

-----------------------------------------------------------------------------
(***************************************************************************)
(* The names of the nodes that a rank creates.                             *)
(***************************************************************************)
IsMine(r, fe, nm) ==
  CASE nm[1] = 1 -> nm[2] \in MyVertexSet(r)
    [] nm[1] = 2 -> nm[2] \in MyEdges(r) /\ nm[3] <= CopiesOn(ShapeOf(fe), iomodel.edges[nm[2]].marker)
    [] nm[1] = 3 -> nm[2] \in MyFaces(r) \cap Quads
    [] nm[1] = 4 -> nm[2] \in my_elements[r]
    [] nm[1] = 5 -> IF PressOf(fe) = "vertex" THEN nm[2] \in MyVertexSet(r)
                    ELSE IF fe = "P1DG" THEN <<nm[2], nm[3]>> \in DiscontinuousNodes(r)
                    ELSE nm[2] \in my_elements[r]

\* The names that rank r creates for a finite element, and those of one block, of the first ones.
Created(r, fe)      == {nm \in Nat \X Nat \X Nat : IsName(ShapeOf(fe), nm) /\ IsMine(r, fe, nm)}
CreatedIn(r, fe, b) == {nm \in Created(r, fe) : nm[1] = b}
CreatedUpTo(r, fe, b) == {nm \in Created(r, fe) : nm[1] <= b}

LEMMA NamesInOrder ==
  ASSUME Partitioned, NEW fe, NEW nm, IsName(ShapeOf(fe), nm), NEW mm, IsName(ShapeOf(fe), mm), nm[1] < mm[1]
  PROVE  IdOf(ShapeOf(fe), nm) < IdOf(ShapeOf(fe), mm)
<1> DEFINE sh == ShapeOf(fe)
<1> DEFINE b == nm[1]
<1> DEFINE d == mm[1]
<1>1. GoodShape(sh)
  BY ShapeIsGood
<1>2. b \in Blocks /\ d \in Blocks /\ b < d
  BY DEF IsName
<1> HIDE DEF sh
<1> DEFINE room == Room(StrideOf(sh, b), Count(sh, b))
<1>3. /\ IdOf(sh, nm) \in Int /\ IdOf(sh, nm) <= First(sh, b) + room /\ room \in Nat
  BY <1>1, IdBounds DEF sh
<1>4. IdOf(sh, mm) \in Int /\ First(sh, d) < IdOf(sh, mm)
  BY <1>1, IdBounds DEF sh
<1>5. First(sh, b) \in Nat /\ First(sh, d) \in Nat /\ First(sh, b) + room <= First(sh, d)
  BY <1>1, <1>2, FirstFacts
<1> HIDE DEF room
<1>6. IdOf(sh, nm) < IdOf(sh, mm)
  BY <1>3, <1>4, <1>5
<1> QED BY <1>6 DEF sh

LEMMA CreatedHaveIds ==
  ASSUME Partitioned, NEW r, NEW fe
  PROVE  \A nm \in Created(r, fe) : /\ IsName(ShapeOf(fe), nm) /\ nm[1] \in Blocks
                                   /\ IdOf(ShapeOf(fe), nm) \in Int /\ IdOf(ShapeOf(fe), nm) > 0
<1> SUFFICES ASSUME NEW nm \in Created(r, fe)
             PROVE  /\ IsName(ShapeOf(fe), nm) /\ nm[1] \in Blocks
                    /\ IdOf(ShapeOf(fe), nm) \in Int /\ IdOf(ShapeOf(fe), nm) > 0
  OBVIOUS
<1> DEFINE sh == ShapeOf(fe)
<1>1. GoodShape(sh) /\ IsName(sh, nm)
  BY ShapeIsGood DEF Created
<1> HIDE DEF sh
<1>2. nm[1] \in Blocks
  BY <1>1 DEF IsName
<1>3. First(sh, nm[1]) \in Nat
  BY <1>1, <1>2, FirstFacts
<1>4. IdOf(sh, nm) \in Int /\ First(sh, nm[1]) < IdOf(sh, nm)
  BY <1>1, IdBounds
<1>5. IdOf(sh, nm) > 0
  BY <1>3, <1>4
<1> QED BY <1>1, <1>2, <1>4, <1>5 DEF sh

LEMMA MakesSame ==
  ASSUME NEW N, NEW a, NEW fe, NEW s, NEW C, NEW D, \A nm : nm \in C <=> nm \in D
  PROVE  Makes(N, a, fe, s, C) <=> Makes(N, a, fe, s, D)
<1>1. C = D
  OBVIOUS
<1> QED BY <1>1

\* A block after the ones before.
LEMMA AddBlock ==
  ASSUME Partitioned, NEW r, NEW N \in Nat, NEW a, NEW fe, NEW b \in 0..4, NEW s,
         Makes(N, a, fe, s, CreatedUpTo(r, fe, b)), NEW d \in Blocks, d = b + 1, NEW t,
         Makes(N, a, fe, t, CreatedIn(r, fe, d))
  PROVE  Makes(N, a, fe, s \o t, CreatedUpTo(r, fe, d))
<1> DEFINE C == CreatedUpTo(r, fe, b)
<1> DEFINE D == CreatedIn(r, fe, d)
<1>1. \A nm \in Created(r, fe) : /\ IsName(ShapeOf(fe), nm) /\ nm[1] \in Blocks
                                /\ IdOf(ShapeOf(fe), nm) \in Int
  BY CreatedHaveIds
<1>2. \A nm \in C : nm \in Created(r, fe) /\ nm[1] <= b
  BY DEF CreatedUpTo
<1>3. \A nm \in D : nm \in Created(r, fe) /\ nm[1] = d
  BY DEF CreatedIn
<1>4. HaveIds(fe, C) /\ HaveIds(fe, D)
  BY <1>1, <1>2, <1>3 DEF HaveIds
<1>5. Earlier(fe, C, D)
  <2> SUFFICES ASSUME NEW nm \in C, NEW mm \in D
               PROVE  IdOf(ShapeOf(fe), nm) < IdOf(ShapeOf(fe), mm)
    BY DEF Earlier
  <2>1. IsName(ShapeOf(fe), nm) /\ IsName(ShapeOf(fe), mm) /\ nm[1] \in Blocks /\ nm[1] <= b /\ mm[1] = d
    BY <1>1, <1>2, <1>3
  <2>2. nm[1] < mm[1]
    BY <2>1 DEF Blocks
  <2> QED BY <2>1, <2>2, NamesInOrder
<1> HIDE DEF C, D
<1>6. Makes(N, a, fe, s \o t, C \cup D)
  BY <1>4, <1>5, MakesJoin DEF C, D
<1>7. ASSUME NEW nm
      PROVE  nm \in C \cup D <=> nm \in CreatedUpTo(r, fe, d)
  <2>1. nm \in Created(r, fe) => nm[1] \in Nat /\ (nm[1] <= d <=> nm[1] <= b \/ nm[1] = d)
    BY <1>1 DEF Blocks
  <2> QED BY <2>1 DEF C, D, CreatedUpTo, CreatedIn
<1>8. C \cup D = CreatedUpTo(r, fe, d)
  BY <1>7
<1> QED BY <1>6, <1>8

\* A block that the finite element has not.
LEMMA SkipBlock ==
  ASSUME Partitioned, NEW r, NEW N, NEW a, NEW fe, NEW b \in 0..4, NEW s,
         Makes(N, a, fe, s, CreatedUpTo(r, fe, b)), NEW d \in Blocks, d = b + 1, StrideOf(ShapeOf(fe), d) = 0
  PROVE  Makes(N, a, fe, s, CreatedUpTo(r, fe, d))
<1>1. ASSUME NEW nm
      PROVE  nm \in CreatedUpTo(r, fe, b) <=> nm \in CreatedUpTo(r, fe, d)
  <2>1. ASSUME nm \in Created(r, fe)
        PROVE  nm[1] <= d <=> nm[1] <= b
    <3>1. IsName(ShapeOf(fe), nm) /\ nm[1] \in Blocks
      BY <2>1, CreatedHaveIds
    <3>2. nm[1] # d
      <4> SUFFICES ASSUME nm[1] = d PROVE FALSE
        OBVIOUS
      <4>1. nm[3] \in 1..0
        BY <3>1 DEF IsName
      <4> QED BY <4>1
    <3> QED BY <3>1, <3>2 DEF Blocks
  <2> QED BY <2>1 DEF CreatedUpTo
<1>2. CreatedUpTo(r, fe, b) = CreatedUpTo(r, fe, d)
  BY <1>1
<1> QED BY <1>2

LEMMA StartBlocks ==
  ASSUME Partitioned, NEW r, NEW N, NEW a, NEW fe
  PROVE  /\ Makes(N, a, fe, << >>, CreatedUpTo(r, fe, 0))
         /\ CreatedUpTo(r, fe, 5) = Created(r, fe)
<1>1. \A nm \in Created(r, fe) : nm[1] \in Blocks
  BY CreatedHaveIds
<1>2. CreatedUpTo(r, fe, 0) = {}
  BY <1>1 DEF CreatedUpTo, Blocks
<1>3. \A nm \in Created(r, fe) : nm[1] <= 5
  BY <1>1 DEF Blocks
<1>4. CreatedUpTo(r, fe, 5) = Created(r, fe)
  BY <1>3 DEF CreatedUpTo
<1>5. Makes(N, a, fe, << >>, {})
  BY MakesNone
<1> QED BY <1>2, <1>4, <1>5

-----------------------------------------------------------------------------
(***************************************************************************)
(* A loop makes the names of its block.                                    *)
(***************************************************************************)
LEMMA IdsRise ==
  ASSUME NEW off \in Nat, NEW k \in Nat, NEW n \in Nat, NEW i \in 1..n, NEW c \in 1..k, NEW j \in 1..n, NEW d \in 1..k
  PROVE  /\ IdIn(off, k, i, c) \in Int
         /\ i < j => IdIn(off, k, i, c) < IdIn(off, k, j, d)
         /\ i = j /\ c < d => IdIn(off, k, i, c) < IdIn(off, k, j, d)
<1>1. IdIn(off, k, i, c) \in Int
  BY IdFacts
<1>2. ASSUME i < j
      PROVE  IdIn(off, k, i, c) < IdIn(off, k, j, d)
  <2> DEFINE x == k * (i - 1)
  <2> DEFINE y == k * (j - 1)
  <2>1. i \in Nat /\ j \in Nat /\ k * (i - 1) + k <= k * (j - 1)
    <3>1. i - 1 \in Nat /\ j - 1 \in Nat /\ i - 1 < j - 1
      BY <1>2
    <3>2. k * (i - 1) + k <= k * (j - 1)
      BY <3>1, StrideFacts
    <3> QED BY <3>1, <3>2
  <2>2. x \in Int /\ y \in Int
    BY <2>1
  <2> HIDE DEF x, y
  <2>3. off + x + c < off + y + d
    BY <2>1, <2>2 DEF x, y
  <2> QED BY <2>3 DEF IdIn, x, y
<1>3. ASSUME i = j, c < d
      PROVE  IdIn(off, k, i, c) < IdIn(off, k, j, d)
  <2> DEFINE x == k * (i - 1)
  <2>1. x \in Int
    OBVIOUS
  <2> HIDE DEF x
  <2>2. off + x + c < off + x + d
    BY <1>3, <2>1
  <2> QED BY <1>3, <2>2 DEF IdIn, x
<1> QED BY <1>1, <1>2, <1>3

LoopNodes(N, a, fe, T, b, n, k, copies) ==
  \A i \in 1..n, c \in 1..k : c <= copies[i] => NodeFor(N, a, fe, T[i][c], <<b, i, c>>)
LoopMine(r, fe, b, n, k, mine, copies) ==
  \A i \in 1..n, c \in 1..k : IsMine(r, fe, <<b, i, c>>) <=> i \in mine /\ c <= copies[i]
IsLoopOf(ss, n, mine, copies, T) ==
  /\ ss = [i \in 1..n |-> ss[i]]
  /\ \A i \in 1..n : ss[i] = IF i \in mine THEN [c \in 1..copies[i] |-> T[i][c]] ELSE << >>

LoopIds(T, n, k, copies, N, off) ==
  \A i \in 1..n, c \in 1..k : c <= copies[i] => T[i][c].id = N + IdIn(off, k, i, c)

LEMMA LoopRises ==
  ASSUME NEW N \in Nat, NEW off \in Nat, NEW n \in Nat, NEW k \in Nat, NEW copies \in [1..n -> 0..k],
         NEW mine, NEW R, NEW T \in [1..n -> [1..k -> R]], NEW ss, IsLoopOf(ss, n, mine, copies, T),
         LoopIds(T, n, k, copies, N, off)
  PROVE  Rises(FlattenSeq(ss))
<1>1. ASSUME NEW i \in 1..n
      PROVE  /\ ss[i] \in Seq(R) /\ Rises(ss[i])
             /\ \A x \in Range(ss[i]) : \E c \in 1..k : c <= copies[i] /\ x = T[i][c]
  <2>1. CASE i \in mine
    <3> DEFINE t == ss[i]
    <3> DEFINE n1 == copies[i]
    <3> DEFINE T1 == T[i]
    <3>1. n1 \in 0..k /\ T1 \in [1..k -> R] /\ t = [c \in 1..n1 |-> T1[c]]
      BY <2>1 DEF IsLoopOf
    <3>2. \A c \in 1..k : c <= n1 => T1[c].id = N + IdIn(off, k, i, c)
      BY DEF LoopIds
    <3> HIDE DEF t, n1, T1
    <3>3. n1 \in Nat /\ \A c \in 1..n1 : c \in 1..k /\ c <= n1 /\ T1[c] \in R
      BY <3>1
    <3>4. t \in Seq(R)
      BY <3>1, <3>3, SeqDef
    <3>5. ASSUME NEW c \in 1..n1, NEW d \in 1..n1, c < d
          PROVE  t[c].id < t[d].id
      <4>1. IdIn(off, k, i, c) \in Int /\ IdIn(off, k, i, d) \in Int /\ IdIn(off, k, i, c) < IdIn(off, k, i, d)
        BY <3>3, <3>5, IdsRise
      <4>2. t[c].id = N + IdIn(off, k, i, c) /\ t[d].id = N + IdIn(off, k, i, d)
        BY <3>1, <3>2, <3>3
      <4> QED BY <4>1, <4>2
    <3>6. Rises(t)
      BY <3>1, <3>5 DEF Rises
    <3>7. \A x \in Range(t) : \E c \in 1..k : c <= n1 /\ x = T1[c]
      BY <3>1, <3>3 DEF Range
    <3> QED BY <3>4, <3>6, <3>7 DEF t, n1, T1
  <2>2. CASE i \notin mine
    <3>1. ss[i] = << >>
      BY <2>2 DEF IsLoopOf
    <3>2. << >> \in Seq(R) /\ Range(<< >>) = {} /\ DOMAIN << >> = {}
      BY EmptySeq DEF Range
    <3> QED BY <3>1, <3>2 DEF Rises
  <2> QED BY <2>1, <2>2
<1>2. ASSUME NEW i \in 1..n, NEW j \in 1..n, i < j
      PROVE  Below(ss[i], ss[j])
  <2> SUFFICES ASSUME NEW x \in Range(ss[i]), NEW y \in Range(ss[j])
               PROVE  x.id < y.id
    BY DEF Below
  <2>1. PICK c \in 1..k : c <= copies[i] /\ x = T[i][c]
    BY <1>1
  <2>2. PICK d \in 1..k : d <= copies[j] /\ y = T[j][d]
    BY <1>1
  <2>3. IdIn(off, k, i, c) \in Int /\ IdIn(off, k, j, d) \in Int /\ IdIn(off, k, i, c) < IdIn(off, k, j, d)
    BY <1>2, IdsRise
  <2>4. x.id = N + IdIn(off, k, i, c) /\ y.id = N + IdIn(off, k, j, d)
    BY <2>1, <2>2 DEF LoopIds
  <2> QED BY <2>3, <2>4
<1>3. ss \in [1..n -> Seq(R)]
  BY <1>1 DEF IsLoopOf
<1>4. /\ \A i \in 1..n : Rises(ss[i])
      /\ \A i, j \in 1..n : i < j => Below(ss[i], ss[j])
  BY <1>1, <1>2
<1> QED BY <1>3, <1>4, FlattenRises

LEMMA LoopFacts ==
  ASSUME NEW n \in Nat, NEW k \in Nat, NEW copies \in [1..n -> 0..k],
         NEW mine, NEW R, NEW T \in [1..n -> [1..k -> R]], NEW ss, IsLoopOf(ss, n, mine, copies, T)
  PROVE  FlattenSeq(ss) \in Seq(R) /\ \A x : x \in Range(FlattenSeq(ss)) <=> Entry(x, n, k, mine, copies, T)
<1>1. ss = [i \in 1..n |-> ss[i]]
  BY DEF IsLoopOf
<1>2. \A i \in 1..n : ss[i] = IF i \in mine THEN [c \in 1..copies[i] |-> T[i][c]] ELSE << >>
  BY DEF IsLoopOf
<1> QED BY <1>1, <1>2, LoopRange

LEMMA BlockMakes ==
  ASSUME Partitioned, NEW r, NEW N \in Nat, NEW a, NEW fe, NEW b \in Blocks,
         NEW n \in Nat, n = Count(ShapeOf(fe), b), NEW k \in Nat, k = StrideOf(ShapeOf(fe), b),
         NEW copies \in [1..n -> 0..k], NEW mine, NEW R, NEW T \in [1..n -> [1..k -> R]],
         NEW ss, IsLoopOf(ss, n, mine, copies, T), LoopNodes(N, a, fe, T, b, n, k, copies),
         LoopMine(r, fe, b, n, k, mine, copies)
  PROVE  Makes(N, a, fe, FlattenSeq(ss), CreatedIn(r, fe, b))
<1> DEFINE sh == ShapeOf(fe)
<1> DEFINE off == First(sh, b)
<1> DEFINE F == FlattenSeq(ss)
<1>1. off \in Nat
  BY ShapeIsGood, FirstFacts
<1>2. \A i \in 1..n, c \in 1..k : IdOf(sh, <<b, i, c>>) = IdIn(off, k, i, c)
  BY DEF IdOf
<1>3. F \in Seq(R) /\ \A x : x \in Range(F) <=> Entry(x, n, k, mine, copies, T)
  BY LoopFacts
<1>4. Rises(F)
  <2>1. ASSUME NEW i \in 1..n, NEW c \in 1..k, c <= copies[i]
        PROVE  T[i][c].id = N + IdIn(off, k, i, c)
    <3> DEFINE nm == <<b, i, c>>
    <3> DEFINE x == T[i][c]
    <3>1. NodeFor(N, a, fe, x, nm)
      BY <2>1 DEF LoopNodes
    <3>2. IdOf(sh, nm) = IdIn(off, k, i, c)
      BY <1>2
    <3> HIDE DEF nm, x
    <3>3. x.id = N + IdOf(ShapeOf(fe), nm)
      BY <3>1 DEF NodeFor
    <3> QED BY <3>2, <3>3 DEF x
  <2> HIDE DEF sh, off
  <2>2. LoopIds(T, n, k, copies, N, off)
    BY <2>1 DEF LoopIds
  <2> HIDE DEF F
  <2>3. Rises(FlattenSeq(ss))
    BY <1>1, <2>2, LoopRises
  <2> QED BY <2>3 DEF F
<1>5. ASSUME NEW i \in 1..n, NEW c \in 1..k
      PROVE  <<b, i, c>> \in CreatedIn(r, fe, b) <=> i \in mine /\ c <= copies[i]
  <2>1. IsName(sh, <<b, i, c>>) /\ <<b, i, c>> \in Nat \X Nat \X Nat
    BY DEF IsName, Blocks
  <2>2. IsMine(r, fe, <<b, i, c>>) <=> i \in mine /\ c <= copies[i]
    BY DEF LoopMine
  <2> QED BY <2>1, <2>2 DEF CreatedIn, Created
<1>6. ASSUME NEW nm \in CreatedIn(r, fe, b)
      PROVE  \E i \in 1..n, c \in 1..k : nm = <<b, i, c>>
  <2>1. nm \in Nat \X Nat \X Nat /\ IsName(sh, nm) /\ nm[1] = b
    BY DEF CreatedIn, Created
  <2>2. nm = <<nm[1], nm[2], nm[3]>> /\ nm[2] \in 1..n /\ nm[3] \in 1..k
    BY <2>1 DEF IsName
  <2> QED BY <2>1, <2>2
<1> HIDE DEF F, sh, off
<1>7. ASSUME NEW x \in Range(F)
      PROVE  \E nm \in CreatedIn(r, fe, b) : NodeFor(N, a, fe, x, nm)
  <2>1. PICK i \in 1..n, c \in 1..k : i \in mine /\ c <= copies[i] /\ x = T[i][c]
    BY <1>3 DEF Entry
  <2>2. NodeFor(N, a, fe, x, <<b, i, c>>)
    BY <2>1 DEF LoopNodes
  <2> QED BY <1>5, <2>1, <2>2
<1>8. ASSUME NEW nm \in CreatedIn(r, fe, b)
      PROVE  \E x \in Range(F) : NodeFor(N, a, fe, x, nm)
  <2>1. PICK i \in 1..n, c \in 1..k : nm = <<b, i, c>>
    BY <1>6
  <2>2. i \in mine /\ c <= copies[i]
    BY <1>5, <2>1
  <2>3. T[i][c] \in Range(F)
    BY <1>3, <2>2 DEF Entry
  <2>4. NodeFor(N, a, fe, T[i][c], <<b, i, c>>)
    BY <2>2 DEF LoopNodes
  <2> QED BY <2>1, <2>3, <2>4
<1>9. Makes(N, a, fe, F, CreatedIn(r, fe, b))
  BY <1>3, <1>4, <1>7, <1>8 DEF Makes, IsList
<1> QED BY <1>9 DEF F

-----------------------------------------------------------------------------
(***************************************************************************)
(* The blocks of nodes, for a finite element fe of analysis a.             *)
(***************************************************************************)
\* The nodes of full Stokes are told by their approximation.
Suits(a, fe, app, b) ==
  fe \in StokesElements => a.name = "Stressbalance" /\ app = IF b = 5 THEN "FSpressure" ELSE "FSvelocity"

\* A loop that makes block b, with n things and k ids for each after the first off ids.
BlockIs(r, N, a, fe, app, b, n, k, off) ==
  /\ Partitioned /\ N \in Nat /\ nodecounter[r] = N
  /\ b \in Blocks /\ n = Count(ShapeOf(fe), b) /\ k = StrideOf(ShapeOf(fe), b) /\ off = First(ShapeOf(fe), b)
  /\ Suits(a, fe, app, b)

LEMMA BlockNumbers ==
  ASSUME NEW r, NEW N, NEW a, NEW fe, NEW app, NEW b, NEW n, NEW k, NEW off, BlockIs(r, N, a, fe, app, b, n, k, off)
  PROVE  n \in Nat /\ k \in Nat /\ off \in Nat
<1>1. GoodShape(ShapeOf(fe))
  BY ShapeIsGood
<1> QED BY <1>1, FirstFacts DEF BlockIs

LEMMA NodeMade ==
  ASSUME NEW r, NEW N, nodecounter[r] = N, NEW a, NEW fe, NEW app, NEW nm, NEW id, id = IdOf(ShapeOf(fe), nm),
         NEW sid, NEW v, nm[1] \in {1, 5} => v = VertexOf(fe, nm), Suits(a, fe, app, nm[1])
  PROVE  NodeFor(N, a, fe, Node(r, a, id, sid, v, app), nm)
<1> DEFINE x == Node(r, a, id, sid, v, app)
<1>1. /\ x.id = N + id /\ x.analysis = a.name /\ x.vertex = v
      /\ x.approximation = IF a.name = "Stressbalance" THEN app ELSE "none"
  BY DEF Node
<1> HIDE DEF x
<1>2. FieldOf(fe, nm) \in {"any", x.approximation}
  BY <1>1 DEF FieldOf, Suits
<1>3. NodeFor(N, a, fe, x, nm)
  BY <1>1, <1>2 DEF NodeFor
<1> QED BY <1>3 DEF x

VerticesRight(fe, b, n, k, V) == b \in {1, 5} => \A i \in 1..n, c \in 1..k : V[i][c] = VertexOf(fe, <<b, i, c>>)
IsNodeLoop(ss, r, a, app, n, k, off, mine, copies, S, V) ==
  /\ ss = [i \in 1..n |-> ss[i]]
  /\ \A i \in 1..n : ss[i] = IF i \in mine
                               THEN [c \in 1..copies[i] |-> Node(r, a, IdIn(off, k, i, c), S[i][c], V[i][c], app)]
                               ELSE << >>

LEMMA ManyMakes ==
  ASSUME NEW r, NEW N, NEW a, NEW fe, NEW app, NEW b, NEW n, NEW k, NEW off, BlockIs(r, N, a, fe, app, b, n, k, off),
         NEW mine, NEW copies \in [1..n -> 0..k], NEW S, NEW V, VerticesRight(fe, b, n, k, V),
         LoopMine(r, fe, b, n, k, mine, copies), NEW ss, IsNodeLoop(ss, r, a, app, n, k, off, mine, copies, S, V)
  PROVE  Makes(N, a, fe, FlattenSeq(ss), CreatedIn(r, fe, b))
<1> DEFINE At2(i, c) == Node(r, a, IdIn(off, k, i, c), S[i][c], V[i][c], app)
<1> DEFINE R == {At2(p[1], p[2]) : p \in (1..n) \X (1..k)}
<1> DEFINE T == [i \in 1..n |-> [c \in 1..k |-> At2(i, c)]]
<1>1. n \in Nat /\ k \in Nat /\ off \in Nat
  BY BlockNumbers
<1>2. \A i \in 1..n, c \in 1..k : T[i][c] = At2(i, c)
  OBVIOUS
<1>3. T \in [1..n -> [1..k -> R]]
  <2>1. \A i \in 1..n, c \in 1..k : At2(i, c) \in R
    <3> SUFFICES ASSUME NEW i \in 1..n, NEW c \in 1..k PROVE At2(i, c) \in R
      OBVIOUS
    <3>1. <<i, c>> \in (1..n) \X (1..k) /\ At2(i, c) = At2(<<i, c>>[1], <<i, c>>[2])
      OBVIOUS
    <3> HIDE DEF At2
    <3> QED BY <3>1
  <2> HIDE DEF At2, R
  <2> QED BY <2>1
<1>4. IsLoopOf(ss, n, mine, copies, T)
  <2>1. ss = [i \in 1..n |-> ss[i]]
    BY DEF IsNodeLoop
  <2>2. ASSUME NEW i \in 1..n, i \in mine
        PROVE  ss[i] = [c \in 1..copies[i] |-> T[i][c]]
    <3>1. ss[i] = [c \in 1..copies[i] |-> At2(i, c)]
      BY <2>2 DEF IsNodeLoop
    <3>2. \A c \in 1..copies[i] : c \in 1..k
      <4>1. copies[i] \in 0..k
        OBVIOUS
      <4> QED BY <1>1, <4>1
    <3> HIDE DEF T, At2
    <3> QED BY <1>2, <3>1, <3>2
  <2>3. \A i \in 1..n : i \notin mine => ss[i] = << >>
    BY DEF IsNodeLoop
  <2> HIDE DEF T
  <2> QED BY <2>1, <2>2, <2>3 DEF IsLoopOf
<1>5. LoopNodes(N, a, fe, T, b, n, k, copies)
  <2> SUFFICES ASSUME NEW i \in 1..n, NEW c \in 1..k
               PROVE  NodeFor(N, a, fe, T[i][c], <<b, i, c>>)
    BY DEF LoopNodes
  <2> DEFINE nm == <<b, i, c>>
  <2> DEFINE id == IdIn(off, k, i, c)
  <2> DEFINE sid == S[i][c]
  <2> DEFINE v == V[i][c]
  <2>1. id = IdOf(ShapeOf(fe), nm)
    BY DEF BlockIs, IdOf
  <2>2. nm[1] \in {1, 5} => v = VertexOf(fe, nm)
    BY DEF VerticesRight
  <2>3. Suits(a, fe, app, nm[1]) /\ nodecounter[r] = N
    BY DEF BlockIs
  <2>4. T[i][c] = Node(r, a, id, sid, v, app)
    BY <1>2
  <2> HIDE DEF nm, id, sid, v, T
  <2>5. NodeFor(N, a, fe, T[i][c], nm)
    BY <2>1, <2>2, <2>3, <2>4, NodeMade
  <2> QED BY <2>5 DEF nm
<1> HIDE DEF T, R
<1> QED BY <1>1, <1>3, <1>4, <1>5, BlockMakes DEF BlockIs

\* One node on each of the things that are mine.
OnceLoop(s, r, a, app, n, off, mine, S, V) ==
  s = FlattenSeq([i \in 1..n |-> IF i \in mine THEN [c \in 1..1 |-> Node(r, a, off + i, S[i], V[i], app)] ELSE << >>])
OnceRight(r, fe, b, n, mine, V) ==
  \A i \in 1..n : /\ b \in {1, 5} => V[i] = VertexOf(fe, <<b, i, 1>>)
                  /\ IsMine(r, fe, <<b, i, 1>>) <=> i \in mine

LEMMA OnceMakes ==
  ASSUME NEW r, NEW N, NEW a, NEW fe, NEW app, NEW b, NEW n, NEW k, NEW off, BlockIs(r, N, a, fe, app, b, n, k, off),
         k = 1, NEW mine, NEW S, NEW V, OnceRight(r, fe, b, n, mine, V),
         NEW s, OnceLoop(s, r, a, app, n, off, mine, S, V)
  PROVE  Makes(N, a, fe, s, CreatedIn(r, fe, b))
<1> DEFINE copies == [i \in 1..n |-> 1]
<1> DEFINE S1 == [i \in 1..n |-> [c \in 1..1 |-> S[i]]]
<1> DEFINE V1 == [i \in 1..n |-> [c \in 1..1 |-> V[i]]]
<1> DEFINE ss == [i \in 1..n |-> IF i \in mine THEN [c \in 1..1 |-> Node(r, a, off + i, S[i], V[i], app)] ELSE << >>]
<1>1. n \in Nat /\ off \in Nat
  BY BlockNumbers
<1>2. copies \in [1..n -> 0..k] /\ \A i \in 1..n : copies[i] = 1
  OBVIOUS
<1>3. VerticesRight(fe, b, n, k, V1)
  <2> SUFFICES ASSUME b \in {1, 5}, NEW i \in 1..n, NEW c \in 1..k
               PROVE  V1[i][c] = VertexOf(fe, <<b, i, c>>)
    BY DEF VerticesRight
  <2>1. c = 1
    OBVIOUS
  <2>2. V1[i][c] = V[i] /\ V[i] = VertexOf(fe, <<b, i, 1>>)
    BY <2>1 DEF OnceRight
  <2> QED BY <2>1, <2>2
<1>4. LoopMine(r, fe, b, n, k, mine, copies)
  <2> SUFFICES ASSUME NEW i \in 1..n, NEW c \in 1..k
               PROVE  IsMine(r, fe, <<b, i, c>>) <=> i \in mine /\ c <= copies[i]
    BY DEF LoopMine
  <2>1. c = 1 /\ c <= copies[i]
    OBVIOUS
  <2>2. IsMine(r, fe, <<b, i, 1>>) <=> i \in mine
    BY DEF OnceRight
  <2> HIDE DEF copies
  <2> QED BY <2>1, <2>2
<1>5. IsNodeLoop(ss, r, a, app, n, k, off, mine, copies, S1, V1)
  <2>1. ASSUME NEW i \in 1..n, i \in mine
        PROVE  ss[i] = [c \in 1..copies[i] |-> Node(r, a, IdIn(off, k, i, c), S1[i][c], V1[i][c], app)]
    <3>1. ss[i] = [c \in 1..1 |-> Node(r, a, off + i, S[i], V[i], app)] /\ copies[i] = 1
      BY <2>1
    <3>2. \A c \in 1..1 : IdIn(off, k, i, c) = off + i /\ S1[i][c] = S[i] /\ V1[i][c] = V[i]
      BY <1>1 DEF IdIn
    <3> HIDE DEF ss, copies, S1, V1
    <3> QED BY <3>1, <3>2
  <2>2. ss = [i \in 1..n |-> ss[i]] /\ \A i \in 1..n : i \notin mine => ss[i] = << >>
    OBVIOUS
  <2> HIDE DEF ss, copies, S1, V1
  <2> QED BY <2>1, <2>2 DEF IsNodeLoop
<1>6. s = FlattenSeq(ss)
  BY DEF OnceLoop
<1> HIDE DEF ss, copies, S1, V1
<1>7. Makes(N, a, fe, FlattenSeq(ss), CreatedIn(r, fe, b))
  BY <1>2, <1>3, <1>4, <1>5, ManyMakes
<1> QED BY <1>6, <1>7

\* The context of a rank that creates nodes for the finite element fe.
Making(r, N, a, fe, app) ==
  /\ Partitioned /\ r \in Ranks /\ N \in Nat /\ nodecounter[r] = N
  /\ fe \in StokesElements => a.name = "Stressbalance" /\ app = "FSvelocity"

LEMMA CornersMade ==
  ASSUME NEW r, NEW N, NEW a, NEW fe, NEW app, Making(r, N, a, fe, app), fe # "P1DG"
  PROVE  Makes(N, a, fe, AtVertices(r, a, 0, app), CreatedIn(r, fe, 1))
<1> DEFINE sh == ShapeOf(fe)
<1> DEFINE V == [i \in 1..Nv |-> i]
<1> DEFINE S == [i \in 1..Nv |-> 0 + i - 1]
<1> DEFINE one == StrideOf(sh, 1)
<1>1. Nv \in Nat
  BY IoFacts DEF Making
<1>2. one = 1 /\ Count(sh, 1) = Nv /\ First(sh, 1) = 0
  <2>1. VelocityInterpolation(fe) # "P1DG"
    BY DEF VelocityInterpolation
  <2>2. sh.corner = 1
    BY <2>1 DEF ShapeOf, Corner
  <2> QED BY <2>2 DEF StrideOf, Count, First
<1>3. BlockIs(r, N, a, fe, app, 1, Nv, one, 0)
  BY <1>2 DEF Making, BlockIs, Blocks, Suits
<1>4. OnceRight(r, fe, 1, Nv, MyVertexSet(r), V)
  BY DEF OnceRight, VertexOf, IsMine
<1>5. OnceLoop(AtVertices(r, a, 0, app), r, a, app, Nv, 0, MyVertexSet(r), S, V)
  <2>1. AtVertices(r, a, 0, app) =
          FlattenSeq([i \in 1..Nv |-> IF i \in MyVertexSet(r) THEN [c \in 1..1 |-> Node(r, a, 0 + i, 0 + i - 1, i, app)]
                                      ELSE << >>])
    BY DEF AtVertices, NodesOn, Once, Nv
  <2>2. \A i \in 1..Nv : V[i] = i /\ S[i] = 0 + i - 1
    OBVIOUS
  <2> HIDE DEF V, S
  <2> QED BY <2>1, <2>2 DEF OnceLoop
<1> HIDE DEF V, S, one
<1> QED BY <1>2, <1>3, <1>4, <1>5, OnceMakes

LEMMA BubblesMade ==
  ASSUME NEW r, NEW N, NEW a, NEW fe, NEW app, Making(r, N, a, fe, app), StrideOf(ShapeOf(fe), 4) = 1,
         NEW off, off = First(ShapeOf(fe), 4)
  PROVE  Makes(N, a, fe, AtElements(r, a, off, app), CreatedIn(r, fe, 4))
<1> DEFINE V == [i \in 1..Nel |-> 1]
<1> DEFINE S == [i \in 1..Nel |-> off + i - 1]
<1> DEFINE one == StrideOf(ShapeOf(fe), 4)
<1>2. one = 1 /\ Count(ShapeOf(fe), 4) = Nel
  BY DEF Count
<1>3. BlockIs(r, N, a, fe, app, 4, Nel, one, off)
  BY <1>2 DEF Making, BlockIs, Blocks, Suits
<1>4. OnceRight(r, fe, 4, Nel, my_elements[r], V)
  BY DEF OnceRight, IsMine
<1>5. OnceLoop(AtElements(r, a, off, app), r, a, app, Nel, off, my_elements[r], S, V)
  <2>1. AtElements(r, a, off, app) =
          FlattenSeq([i \in 1..Nel |-> IF i \in my_elements[r] THEN [c \in 1..1 |-> Node(r, a, off + i, off + i - 1, 1, app)]
                                      ELSE << >>])
    BY DEF AtElements, NodesOn, Once, Nel
  <2>2. \A i \in 1..Nel : V[i] = 1 /\ S[i] = off + i - 1
    OBVIOUS
  <2> HIDE DEF V, S
  <2> QED BY <2>1, <2>2 DEF OnceLoop
<1> HIDE DEF V, S, one
<1> QED BY <1>2, <1>3, <1>4, <1>5, OnceMakes

\* The pressure at the vertices, with serial ids that follow those of the velocity, or not.
PressureContext(r, N, a, fe, off) ==
  /\ Making(r, N, a, fe, "FSvelocity") /\ fe \in StokesElements /\ PressOf(fe) = "vertex" /\ off = First(ShapeOf(fe), 5)

LEMMA PressuresMade ==
  ASSUME NEW r, NEW N, NEW a, NEW fe, NEW off, PressureContext(r, N, a, fe, off), NEW s, NEW S,
         OnceLoop(s, r, a, "FSpressure", Nv, off, MyVertexSet(r), S, [i \in 1..Nv |-> i])
  PROVE  Makes(N, a, fe, s, CreatedIn(r, fe, 5))
<1> DEFINE V == [i \in 1..Nv |-> i]
<1> DEFINE one == StrideOf(ShapeOf(fe), 5)
<1>1. PressOf(fe) = "vertex" /\ ShapeOf(fe).press = "vertex"
  BY ShapeIsGood DEF PressureContext
<1>2. one = 1 /\ Count(ShapeOf(fe), 5) = Nv
  BY <1>1 DEF Count, StrideOf
<1>3. BlockIs(r, N, a, fe, "FSpressure", 5, Nv, one, off)
  BY <1>2 DEF PressureContext, Making, BlockIs, Blocks, Suits
<1>4. OnceRight(r, fe, 5, Nv, MyVertexSet(r), V)
  BY <1>1 DEF OnceRight, IsMine, VertexOf
<1>5. OnceLoop(s, r, a, "FSpressure", Nv, off, MyVertexSet(r), S, V)
  OBVIOUS
<1> HIDE DEF V, one
<1> QED BY <1>2, <1>3, <1>4, <1>5, OnceMakes

LEMMA VertexPressuresMade ==
  ASSUME NEW r, NEW N, NEW a, NEW fe, NEW off, PressureContext(r, N, a, fe, off)
  PROVE  /\ Makes(N, a, fe, AtVertices(r, a, off, "FSpressure"), CreatedIn(r, fe, 5))
         /\ \A counter : Makes(N, a, fe, LayerNodes(a, off, counter)[r], CreatedIn(r, fe, 5))
<1> DEFINE V == [i \in 1..Nv |-> i]
<1>0. \A i \in 1..Nv : V[i] = i
  OBVIOUS
<1>1. Makes(N, a, fe, AtVertices(r, a, off, "FSpressure"), CreatedIn(r, fe, 5))
  <2> DEFINE S == [i \in 1..Nv |-> off + i - 1]
  <2>1. AtVertices(r, a, off, "FSpressure") =
          FlattenSeq([i \in 1..Nv |-> IF i \in MyVertexSet(r)
                                        THEN [c \in 1..1 |-> Node(r, a, off + i, off + i - 1, i, "FSpressure")] ELSE << >>])
    BY DEF AtVertices, NodesOn, Once, Nv
  <2>2. \A i \in 1..Nv : S[i] = off + i - 1
    OBVIOUS
  <2> HIDE DEF V, S
  <2>3. OnceLoop(AtVertices(r, a, off, "FSpressure"), r, a, "FSpressure", Nv, off, MyVertexSet(r), S, V)
    BY <1>0, <2>1, <2>2 DEF OnceLoop
  <2> QED BY <2>3, PressuresMade DEF V
<1>2. ASSUME NEW counter
      PROVE  Makes(N, a, fe, LayerNodes(a, off, counter)[r], CreatedIn(r, fe, 5))
  <2> DEFINE S == [i \in 1..Nv |-> counter + i]
  <2> DEFINE L == LayerNodes(a, off, counter)[r]
  <2>1. L = FlattenSeq([i \in 1..Nv |-> IF i \in MyVertexSet(r)
                                          THEN [c \in 1..1 |-> Node(r, a, off + i, counter + i, i, "FSpressure")] ELSE << >>])
    BY DEF LayerNodes, NodesOn, Once, Nv, PressureContext, Making
  <2>2. \A i \in 1..Nv : S[i] = counter + i
    OBVIOUS
  <2> HIDE DEF V, S, L
  <2>3. OnceLoop(L, r, a, "FSpressure", Nv, off, MyVertexSet(r), S, V)
    BY <1>0, <2>1, <2>2 DEF OnceLoop
  <2>4. Makes(N, a, fe, L, CreatedIn(r, fe, 5))
    BY <2>3, PressuresMade DEF V
  <2> QED BY <2>4 DEF L
<1> QED BY <1>1, <1>2

\* One node on each edge, on each quad.
LEMMA EdgesMade ==
  ASSUME NEW r, NEW N, NEW a, NEW fe, NEW app, Making(r, N, a, fe, app),
         ShapeOf(fe).corner = 1 /\ ShapeOf(fe).stride = 1 /\ ShapeOf(fe).up = 1 /\ ShapeOf(fe).level = 1
  PROVE  Makes(N, a, fe, AtEdges(r, a, app), CreatedIn(r, fe, 2))
<1> DEFINE V == [i \in 1..Ne |-> 1]
<1> DEFINE S == [i \in 1..Ne |-> Nv + i - 1]
<1> DEFINE one == StrideOf(ShapeOf(fe), 2)
<1>1. Nv \in Nat
  BY IoFacts DEF Making
<1>2. one = 1 /\ Count(ShapeOf(fe), 2) = Ne /\ First(ShapeOf(fe), 2) = Nv
  BY <1>1 DEF Count, StrideOf, First, First2, Room
<1>3. BlockIs(r, N, a, fe, app, 2, Ne, one, Nv)
  BY <1>2 DEF Making, BlockIs, Blocks, Suits
<1>4. OnceRight(r, fe, 2, Ne, MyEdges(r), V)
  BY DEF OnceRight, IsMine, CopiesOn
<1>5. OnceLoop(AtEdges(r, a, app), r, a, app, Ne, Nv, MyEdges(r), S, V)
  <2>1. AtEdges(r, a, app) =
          FlattenSeq([i \in 1..Ne |-> IF i \in MyEdges(r) THEN [c \in 1..1 |-> Node(r, a, Nv + i, Nv + i - 1, 1, app)]
                                      ELSE << >>])
    BY DEF AtEdges, NodesOn, Once, Nv, Ne
  <2>2. \A i \in 1..Ne : V[i] = 1 /\ S[i] = Nv + i - 1
    OBVIOUS
  <2> HIDE DEF V, S
  <2> QED BY <2>1, <2>2 DEF OnceLoop
<1> HIDE DEF V, S, one
<1> QED BY <1>2, <1>3, <1>4, <1>5, OnceMakes

LEMMA QuadsMade ==
  ASSUME NEW r, NEW N, NEW a, NEW fe, NEW app, Making(r, N, a, fe, app), Kind = "penta",
         ShapeOf(fe).corner = 1 /\ ShapeOf(fe).stride = 1 /\ ShapeOf(fe).quad = 1
  PROVE  Makes(N, a, fe, AtQuads(r, a, app), CreatedIn(r, fe, 3))
<1> DEFINE off == Nv + Ne
<1> DEFINE V == [i \in 1..Nf |-> 1]
<1> DEFINE S == [i \in 1..Nf |-> off + i - 1]
<1> DEFINE one == StrideOf(ShapeOf(fe), 3)
<1>1. Nv \in Nat /\ Ne \in Nat
  BY IoFacts DEF Making
<1>2. one = 1 /\ Count(ShapeOf(fe), 3) = Nf /\ First(ShapeOf(fe), 3) = off
  BY <1>1 DEF Count, StrideOf, First, First2, First3, Room, NQuads
<1>3. BlockIs(r, N, a, fe, app, 3, Nf, one, off)
  BY <1>2 DEF Making, BlockIs, Blocks, Suits
<1>4. OnceRight(r, fe, 3, Nf, MyFaces(r) \cap Quads, V)
  BY DEF OnceRight, IsMine
<1>5. OnceLoop(AtQuads(r, a, app), r, a, app, Nf, off, MyFaces(r) \cap Quads, S, V)
  <2>1. AtQuads(r, a, app) =
          FlattenSeq([i \in 1..Nf |-> IF i \in MyFaces(r) \cap Quads
                                        THEN [c \in 1..1 |-> Node(r, a, off + i, off + i - 1, 1, app)] ELSE << >>])
    BY DEF AtQuads, NodesOn, Once, Nv, Ne, Nf, Kind
  <2>2. \A i \in 1..Nf : V[i] = 1 /\ S[i] = off + i - 1
    OBVIOUS
  <2> HIDE DEF V, S
  <2> QED BY <2>1, <2>2 DEF OnceLoop
<1> HIDE DEF V, S, one, off
<1> QED BY <1>2, <1>3, <1>4, <1>5, OnceMakes

\* Several nodes on each edge, on each quad.
LEMMA CountedEdgesMade ==
  ASSUME NEW r, NEW N, NEW a, NEW fe, NEW app, Making(r, N, a, fe, app), ShapeOf(fe).corner = 1,
         NEW k, k = ShapeOf(fe).stride, NEW x, x = ShapeOf(fe).up, NEW y, y = ShapeOf(fe).level
  PROVE  Makes(N, a, fe, CountedEdges(r, a, k, EdgeCopies(x, y), app), CreatedIn(r, fe, 2))
<1> DEFINE copies == EdgeCopies(x, y)
<1> DEFINE V == [i \in 1..Ne |-> [c \in 1..k |-> 1]]
<1> DEFINE S == [i \in 1..Ne |-> [c \in 1..k |-> Nv + Total(copies, i - 1) + c]]
<1> DEFINE ss == [i \in 1..Ne |->
                    IF i \in MyEdges(r)
                      THEN [c \in 1..copies[i] |-> Node(r, a, IdIn(Nv, k, i, c), Nv + Total(copies, i - 1) + c, 1, app)]
                      ELSE << >>]
<1>1. Nv \in Nat /\ Ne \in Nat /\ DOMAIN iomodel.edges = 1..Ne
  BY IoFacts DEF Making
<1>2. k \in Nat /\ x \in 0..k /\ y \in 0..k
  BY ShapeIsGood DEF GoodShape, Shapes
<1>3. copies \in [1..Ne -> 0..k] /\ \A i \in 1..Ne : copies[i] = CopiesOn(ShapeOf(fe), iomodel.edges[i].marker)
  BY <1>1, <1>2 DEF EdgeCopies, CopiesOn
<1> HIDE DEF copies
<1>4. Count(ShapeOf(fe), 2) = Ne /\ First(ShapeOf(fe), 2) = Nv /\ StrideOf(ShapeOf(fe), 2) = k
  BY <1>1 DEF Count, StrideOf, First, First2, Room
<1>5. BlockIs(r, N, a, fe, app, 2, Ne, k, Nv)
  BY <1>4 DEF Making, BlockIs, Blocks, Suits
<1>6. VerticesRight(fe, 2, Ne, k, V)
  BY DEF VerticesRight
<1>7. LoopMine(r, fe, 2, Ne, k, MyEdges(r), copies)
  BY <1>3 DEF LoopMine, IsMine
<1>8. IsNodeLoop(ss, r, a, app, Ne, k, Nv, MyEdges(r), copies, S, V)
  <2>1. ASSUME NEW i \in 1..Ne, i \in MyEdges(r)
        PROVE  ss[i] = [c \in 1..copies[i] |-> Node(r, a, IdIn(Nv, k, i, c), S[i][c], V[i][c], app)]
    <3>1. ss[i] = [c \in 1..copies[i] |-> Node(r, a, IdIn(Nv, k, i, c), Nv + Total(copies, i - 1) + c, 1, app)]
      BY <2>1
    <3>2. ASSUME NEW c \in 1..copies[i]
          PROVE  S[i][c] = Nv + Total(copies, i - 1) + c /\ V[i][c] = 1
      <4>1. c \in 1..k
        <5>1. copies[i] \in 0..k
          BY <1>3
        <5> QED BY <1>2, <5>1
      <4> QED BY <4>1
    <3> HIDE DEF ss, S, V
    <3> QED BY <3>1, <3>2
  <2>2. ss = [i \in 1..Ne |-> ss[i]] /\ \A i \in 1..Ne : i \notin MyEdges(r) => ss[i] = << >>
    OBVIOUS
  <2> HIDE DEF ss, S, V
  <2> QED BY <2>1, <2>2 DEF IsNodeLoop
<1>9. CountedEdges(r, a, k, copies, app) = FlattenSeq(ss)
  BY DEF CountedEdges, NodesOn, Nv, Ne, IdIn
<1> HIDE DEF ss, S, V
<1>10. Makes(N, a, fe, FlattenSeq(ss), CreatedIn(r, fe, 2))
  BY <1>3, <1>5, <1>6, <1>7, <1>8, ManyMakes
<1> QED BY <1>9, <1>10 DEF copies

LEMMA CountedQuadsMade ==
  ASSUME NEW r, NEW N, NEW a, NEW fe, NEW app, Making(r, N, a, fe, app), ShapeOf(fe).corner = 1,
         Kind = "penta", ShapeOf(fe).stride = 3 /\ ShapeOf(fe).quad = 3, NEW edgecopies
  PROVE  Makes(N, a, fe, CountedQuads(r, a, edgecopies, app), CreatedIn(r, fe, 3))
<1> DEFINE copies == QuadCopies
<1> DEFINE k == StrideOf(ShapeOf(fe), 3)
<1> DEFINE off == Nv + 3 * Ne
<1> DEFINE counter == Nv + Total(edgecopies, Ne)
<1> DEFINE V == [i \in 1..Nf |-> [c \in 1..k |-> 1]]
<1> DEFINE S == [i \in 1..Nf |-> [c \in 1..k |-> counter + Total(copies, i - 1) + c]]
<1> DEFINE ss == [i \in 1..Nf |->
                    IF i \in MyFaces(r)
                      THEN [c \in 1..copies[i] |-> Node(r, a, off + 3 * (i - 1) + c, counter + Total(copies, i - 1) + c, 1, app)]
                      ELSE << >>]
<1>1. Nv \in Nat /\ Ne \in Nat /\ Nf \in Nat /\ DOMAIN iomodel.faces = 1..Nf
  BY IoFacts DEF Making
<1>2. k = 3
  BY DEF StrideOf
<1>3. copies \in [1..Nf -> 0..k] /\ \A i \in 1..Nf : copies[i] = IF i \in Quads THEN 3 ELSE 0
  BY <1>1, <1>2 DEF QuadCopies
<1> HIDE DEF copies
<1>4. Count(ShapeOf(fe), 3) = Nf /\ First(ShapeOf(fe), 3) = off
  BY <1>1 DEF Count, NQuads, First, First3, First2, Room
<1> HIDE DEF off, counter, k
<1>5. BlockIs(r, N, a, fe, app, 3, Nf, k, off)
  BY <1>4 DEF Making, BlockIs, Blocks, Suits, k
<1>6. VerticesRight(fe, 3, Nf, k, V)
  BY DEF VerticesRight
<1>7. LoopMine(r, fe, 3, Nf, k, MyFaces(r), copies)
  <2> SUFFICES ASSUME NEW i \in 1..Nf, NEW c \in 1..k
               PROVE  IsMine(r, fe, <<3, i, c>>) <=> i \in MyFaces(r) /\ c <= copies[i]
    BY DEF LoopMine
  <2>1. c <= copies[i] <=> i \in Quads
    BY <1>2, <1>3
  <2> QED BY <2>1 DEF IsMine
<1>8. IsNodeLoop(ss, r, a, app, Nf, k, off, MyFaces(r), copies, S, V)
  <2>1. ASSUME NEW i \in 1..Nf, i \in MyFaces(r)
        PROVE  ss[i] = [c \in 1..copies[i] |-> Node(r, a, IdIn(off, k, i, c), S[i][c], V[i][c], app)]
    <3>1. ss[i] = [c \in 1..copies[i] |-> Node(r, a, off + 3 * (i - 1) + c, counter + Total(copies, i - 1) + c, 1, app)]
      BY <2>1
    <3>2. ASSUME NEW c \in 1..copies[i]
          PROVE  /\ S[i][c] = counter + Total(copies, i - 1) + c /\ V[i][c] = 1
                 /\ IdIn(off, k, i, c) = off + 3 * (i - 1) + c
      <4>1. c \in 1..k
        <5>1. copies[i] \in 0..k
          BY <1>3
        <5> QED BY <1>2, <5>1
      <4> QED BY <1>2, <4>1 DEF IdIn
    <3> HIDE DEF ss, S, V
    <3> QED BY <3>1, <3>2
  <2>2. ss = [i \in 1..Nf |-> ss[i]] /\ \A i \in 1..Nf : i \notin MyFaces(r) => ss[i] = << >>
    OBVIOUS
  <2> HIDE DEF ss, S, V
  <2> QED BY <2>1, <2>2 DEF IsNodeLoop
<1>9. CountedQuads(r, a, edgecopies, app) = FlattenSeq(ss)
  BY DEF CountedQuads, NodesOn, Nv, Ne, Nf, off, counter, copies
<1> HIDE DEF ss, S, V
<1>10. Makes(N, a, fe, FlattenSeq(ss), CreatedIn(r, fe, 3))
  BY <1>3, <1>5, <1>6, <1>7, <1>8, ManyMakes
<1> QED BY <1>9, <1>10

\* The pressure at the corners of the elements.
LEMMA CornerPressuresMade ==
  ASSUME NEW r, NEW N, NEW a, NEW fe, Making(r, N, a, fe, "FSvelocity"), fe = "CrouzeixRaviart",
         NEW off, off = First(ShapeOf(fe), 5)
  PROVE  Makes(N, a, fe, CornerNodes(a, off)[r], CreatedIn(r, fe, 5))
<1> DEFINE k == StrideOf(ShapeOf(fe), 5)
<1> DEFINE copies == [e \in 1..Nel |-> k]
<1> DEFINE V == [e \in 1..Nel |-> [p \in 1..k |-> Place(e, p)]]
<1> DEFINE S == [e \in 1..Nel |-> [p \in 1..k |-> (off + k * (e - 1) + p) - 1]]
<1> DEFINE ss == [e \in 1..Nel |->
                    IF e \in my_elements[r]
                      THEN [p \in 1..Len(iomodel.mesh.elements[e]) |->
                              Node(r, a, off + Len(iomodel.mesh.elements[e]) * (e - 1) + p,
                                   (off + Len(iomodel.mesh.elements[e]) * (e - 1) + p) - 1,
                                   iomodel.mesh.elements[e][p], "FSpressure")]
                      ELSE << >>]
<1>1. PressOf(fe) = "own" /\ ShapeOf(fe).press = "own"
  BY ShapeIsGood DEF PressOf
<1>2. /\ Nel \in Nat /\ k = Nc /\ k \in Nat
      /\ \A e \in 1..Nel : Len(iomodel.mesh.elements[e]) = k
  BY <1>1, IoFacts DEF Making, StrideOf, Nc
<1>3. copies \in [1..Nel -> 0..k] /\ \A e \in 1..Nel : copies[e] = k
  BY <1>2
<1>4. Count(ShapeOf(fe), 5) = Nel
  BY <1>1 DEF Count
<1> HIDE DEF k, copies
<1>5. BlockIs(r, N, a, fe, "FSpressure", 5, Nel, k, off)
  BY <1>4 DEF Making, BlockIs, Blocks, Suits, k
<1>6. VerticesRight(fe, 5, Nel, k, V)
  BY <1>1 DEF VerticesRight, VertexOf
<1>7. LoopMine(r, fe, 5, Nel, k, my_elements[r], copies)
  BY <1>1, <1>3 DEF LoopMine, IsMine
<1>8. IsNodeLoop(ss, r, a, "FSpressure", Nel, k, off, my_elements[r], copies, S, V)
  <2>1. ASSUME NEW e \in 1..Nel, e \in my_elements[r]
        PROVE  ss[e] = [c \in 1..copies[e] |-> Node(r, a, IdIn(off, k, e, c), S[e][c], V[e][c], "FSpressure")]
    <3>1. ss[e] = [p \in 1..Len(iomodel.mesh.elements[e]) |->
                              Node(r, a, off + Len(iomodel.mesh.elements[e]) * (e - 1) + p,
                                   (off + Len(iomodel.mesh.elements[e]) * (e - 1) + p) - 1,
                                   iomodel.mesh.elements[e][p], "FSpressure")]
      BY <2>1
    <3>2. Len(iomodel.mesh.elements[e]) = k /\ copies[e] = k
      BY <1>2, <1>3
    <3>3. ss[e] = [p \in 1..k |-> Node(r, a, off + k * (e - 1) + p, (off + k * (e - 1) + p) - 1,
                                       iomodel.mesh.elements[e][p], "FSpressure")]
      <4> HIDE DEF ss, S, V
      <4> QED BY <3>1, <3>2
    <3>4. ASSUME NEW c \in 1..k
          PROVE  /\ S[e][c] = (off + k * (e - 1) + c) - 1 /\ V[e][c] = iomodel.mesh.elements[e][c]
                 /\ IdIn(off, k, e, c) = off + k * (e - 1) + c
      BY DEF IdIn, Place
    <3> HIDE DEF ss, S, V
    <3> QED BY <3>2, <3>3, <3>4
  <2>2. ss = [e \in 1..Nel |-> ss[e]] /\ \A e \in 1..Nel : e \notin my_elements[r] => ss[e] = << >>
    OBVIOUS
  <2> HIDE DEF ss, S, V
  <2> QED BY <2>1, <2>2 DEF IsNodeLoop
<1>9. CornerNodes(a, off)[r] = FlattenSeq(ss)
  BY DEF CornerNodes, NodesOn, Nel, Making
<1> HIDE DEF ss, S, V
<1>10. Makes(N, a, fe, FlattenSeq(ss), CreatedIn(r, fe, 5))
  BY <1>3, <1>5, <1>6, <1>7, <1>8, ManyMakes
<1> QED BY <1>9, <1>10

-----------------------------------------------------------------------------
(***************************************************************************)
(* The nodes of the discontinuous Galerkin method.                         *)
(***************************************************************************)
LEMMA OwnShape ==
  ASSUME Partitioned, Kind = "tria"
  PROVE  LET sh == ShapeOf("P1DG")
         IN  /\ \A b \in 1..4 : StrideOf(sh, b) = 0
             /\ Count(sh, 5) = Nel /\ StrideOf(sh, 5) = 3 /\ First(sh, 5) = 0
<1> DEFINE sh == ShapeOf("P1DG")
<1>0. Nv \in Nat /\ Ne \in Nat /\ Nel \in Nat /\ Nc = 3 /\ NQuads = 0
  BY IoFacts DEF Nc, NQuads
<1>1. VelocityInterpolation("P1DG") = "P1DG"
  BY DEF VelocityInterpolation
<1>2. /\ sh.corner = 0 /\ sh.up = 0 /\ sh.level = 0 /\ sh.stride = 0 /\ sh.quad = 0 /\ sh.bubble = 0
      /\ sh.press = "own"
  BY <1>1 DEF ShapeOf, Corner, UpOf, LevelOf, StrideOn, QuadOf, BubbleOf, PressOf
<1> HIDE DEF sh
<1>3. \A b \in 1..4 : StrideOf(sh, b) = 0
  BY <1>2 DEF StrideOf
<1>4. Count(sh, 5) = Nel /\ StrideOf(sh, 5) = 3
  BY <1>0, <1>2 DEF Count, StrideOf
<1>5. First2(sh) = 0 /\ First3(sh) = 0
  BY <1>0, <1>2 DEF First2, First3, Room
<1>6. First5(sh) = 0
  BY <1>0, <1>2, <1>5 DEF First4, First5, Room
<1> QED BY <1>3, <1>4, <1>6 DEF First, sh

DGRecords(r, a, app) == {DGCorner(r, a, q[1], q[2], app) : q \in (1..Nel) \X (1..3)}

\* The entry of one corner: a node, if the rank has it.
CornerIn(n, r, a, e, p, app) == <<e, p>> \in DiscontinuousNodes(r) /\ n = DGCorner(r, a, e, p, app)
DGEntryShows(r, N, a, e, p, app) ==
  /\ DGEntry(r, a, e, p, app) \in Seq(DGRecords(r, a, app)) /\ Rises(DGEntry(r, a, e, p, app))
  /\ \A n : n \in Range(DGEntry(r, a, e, p, app)) <=> CornerIn(n, r, a, e, p, app)
  /\ DGCorner(r, a, e, p, app).id = N + IdIn(0, 3, e, p)

LEMMA DGEntryIs ==
  ASSUME NEW r, NEW N \in Nat, nodecounter[r] = N, NEW a, NEW app, NEW e \in 1..Nel, NEW p \in 1..3
  PROVE  DGEntryShows(r, N, a, e, p, app)
<1> DEFINE s == DGEntry(r, a, e, p, app)
<1> DEFINE x == DGCorner(r, a, e, p, app)
<1>1. x.id = N + IdIn(0, 3, e, p)
  <2>1. x.id = N + (3 * (e - 1) + p)
    BY DEF DGCorner, Node
  <2>2. IdIn(0, 3, e, p) = 3 * (e - 1) + p
    BY DEF IdIn
  <2> QED BY <2>1, <2>2
<1>2. x \in DGRecords(r, a, app)
  <2>1. <<e, p>> \in (1..Nel) \X (1..3) /\ <<e, p>>[1] = e /\ <<e, p>>[2] = p
    OBVIOUS
  <2> QED BY <2>1 DEF DGRecords
<1>3. s = IF <<e, p>> \in DiscontinuousNodes(r) THEN <<x>> ELSE << >>
  BY DEF DGEntry
<1> HIDE DEF s, x
<1>4. <<x>> \in Seq(DGRecords(r, a, app)) /\ Range(<<x>>) = {x} /\ Rises(<<x>>)
  BY <1>2 DEF Range, Rises
<1>5. << >> \in Seq(DGRecords(r, a, app)) /\ Range(<< >>) = {} /\ Rises(<< >>)
  BY EmptySeq DEF Range, Rises
<1>6. s \in Seq(DGRecords(r, a, app)) /\ Rises(s)
  BY <1>3, <1>4, <1>5
<1>7. \A n : n \in Range(s) <=> <<e, p>> \in DiscontinuousNodes(r) /\ n = x
  BY <1>3, <1>4, <1>5
<1> QED BY <1>1, <1>6, <1>7 DEF s, x, DGEntryShows, CornerIn

\* The three entries of a triangle.
DGOf(r, a, e, app) == DGEntry(r, a, e, 1, app) \o DGEntry(r, a, e, 2, app) \o DGEntry(r, a, e, 3, app)
DGTriangleShows(s, r, a, e, app) ==
  /\ s \in Seq(DGRecords(r, a, app)) /\ Rises(s)
  /\ \A n : n \in Range(s) <=> \E p \in 1..3 : CornerIn(n, r, a, e, p, app)

LEMMA DGTriangle ==
  ASSUME NEW r, NEW N \in Nat, nodecounter[r] = N, NEW a, NEW app, NEW e \in 1..Nel
  PROVE  DGTriangleShows(DGOf(r, a, e, app), r, a, e, app)
<1> DEFINE R == DGRecords(r, a, app)
<1> DEFINE x == DGEntry(r, a, e, 1, app)
<1> DEFINE y == DGEntry(r, a, e, 2, app)
<1> DEFINE z == DGEntry(r, a, e, 3, app)
<1>0. \A p \in 1..3 : DGEntryShows(r, N, a, e, p, app)
  BY DGEntryIs
<1>a. 1 \in 1..3 /\ 2 \in 1..3 /\ 3 \in 1..3 /\ \A p \in 1..3 : p = 1 \/ p = 2 \/ p = 3
  OBVIOUS
<1>1. DGEntryShows(r, N, a, e, 1, app) /\ DGEntryShows(r, N, a, e, 2, app) /\ DGEntryShows(r, N, a, e, 3, app)
  BY <1>0, <1>a
<1>2. /\ x \in Seq(R) /\ Rises(x) /\ (\A n : n \in Range(x) <=> CornerIn(n, r, a, e, 1, app))
      /\ y \in Seq(R) /\ Rises(y) /\ (\A n : n \in Range(y) <=> CornerIn(n, r, a, e, 2, app))
      /\ z \in Seq(R) /\ Rises(z) /\ (\A n : n \in Range(z) <=> CornerIn(n, r, a, e, 3, app))
  BY <1>1 DEF DGEntryShows
<1>4. \A n : \A p \in 1..3 : CornerIn(n, r, a, e, p, app) => n.id = N + IdIn(0, 3, e, p)
  BY <1>0 DEF DGEntryShows, CornerIn
<1>5. IdIn(0, 3, e, 1) < IdIn(0, 3, e, 2) /\ IdIn(0, 3, e, 2) < IdIn(0, 3, e, 3)
      /\ IdIn(0, 3, e, 1) \in Int /\ IdIn(0, 3, e, 2) \in Int /\ IdIn(0, 3, e, 3) \in Int
  BY DEF IdIn
<1>6. DGOf(r, a, e, app) = (x \o y) \o z
  BY DEF DGOf
<1> HIDE DEF x, y, z, R
<1>b. \A n : (n \in Range(x) => n.id = N + IdIn(0, 3, e, 1)) /\ (n \in Range(y) => n.id = N + IdIn(0, 3, e, 2))
             /\ (n \in Range(z) => n.id = N + IdIn(0, 3, e, 3))
  BY <1>2, <1>4, <1>a
<1>7. Below(x, y)
  BY <1>5, <1>b DEF Below
<1>8. x \o y \in Seq(R) /\ Range(x \o y) = Range(x) \cup Range(y) /\ Rises(x \o y)
  <2>1. x \o y \in Seq(R) /\ Range(x \o y) = Range(x) \cup Range(y)
    BY <1>2, RangeOfConcat
  <2>2. Rises(x \o y)
    BY <1>2, <1>7, RisesJoin
  <2> QED BY <2>1, <2>2
<1> DEFINE u == x \o y
<1> HIDE DEF u
<1>9. u \in Seq(R) /\ Range(u) = Range(x) \cup Range(y) /\ Rises(u)
  BY <1>8 DEF u
<1>10. Below(u, z)
  BY <1>5, <1>9, <1>b DEF Below
<1>11. u \o z \in Seq(R) /\ Range(u \o z) = Range(u) \cup Range(z) /\ Rises(u \o z)
  <2>1. u \o z \in Seq(R) /\ Range(u \o z) = Range(u) \cup Range(z)
    BY <1>2, <1>9, RangeOfConcat
  <2>2. Rises(u \o z)
    BY <1>2, <1>9, <1>10, RisesJoin
  <2> QED BY <2>1, <2>2
<1>12. \A n : n \in Range(u \o z) <=> \E p \in 1..3 : CornerIn(n, r, a, e, p, app)
  BY <1>2, <1>9, <1>11, <1>a
<1> QED BY <1>6, <1>11, <1>12 DEF u, R, DGTriangleShows

LEMMA DGMade ==
  ASSUME NEW r, NEW N, NEW a, NEW app, Making(r, N, a, "P1DG", app), Kind = "tria"
  PROVE  Makes(N, a, "P1DG", DGNodes(a, app)[r], CreatedIn(r, "P1DG", 5))
<1> DEFINE fe == "P1DG"
<1> DEFINE R == DGRecords(r, a, app)
<1> DEFINE ss == [e \in 1..Nel |-> DGOf(r, a, e, app)]
<1>0. Partitioned /\ r \in Ranks /\ N \in Nat /\ nodecounter[r] = N
  BY DEF Making
<1>1. Nel \in Nat /\ Elements = 1..Nel
  BY <1>0, IoFacts
<1>2. DGNodes(a, app)[r] = FlattenSeq(ss)
  BY <1>0, <1>1 DEF DGNodes, DGOf
<1>t. \A e \in 1..Nel : DGTriangleShows(ss[e], r, a, e, app)
  <2> TAKE e \in 1..Nel
  <2>1. ss[e] = DGOf(r, a, e, app)
    OBVIOUS
  <2> HIDE DEF ss
  <2> QED BY <1>0, <2>1, DGTriangle
<1>3. \A e \in 1..Nel : /\ ss[e] \in Seq(R) /\ Rises(ss[e])
                        /\ \A n : n \in Range(ss[e]) <=> \E p \in 1..3 : CornerIn(n, r, a, e, p, app)
  BY <1>t DEF DGTriangleShows
<1>4. ss \in [1..Nel -> Seq(R)]
  BY <1>3
<1> HIDE DEF ss, R
<1>5. \A n : n \in Range(FlattenSeq(ss)) <=> \E e \in 1..Nel, p \in 1..3 : CornerIn(n, r, a, e, p, app)
  <2>1. \A n : n \in Range(FlattenSeq(ss)) <=> \E e \in 1..Nel : n \in Range(ss[e])
    BY <1>1, <1>4, RangeOfFlattened
  <2> QED BY <1>3, <2>1
<1>6. FlattenSeq(ss) \in Seq(R)
  BY <1>1, <1>4, RangeOfFlattened
<1>7. \A e \in 1..Nel, p \in 1..3 : DGCorner(r, a, e, p, app).id = N + IdIn(0, 3, e, p)
  <2>1. \A e \in 1..Nel, p \in 1..3 : DGEntryShows(r, N, a, e, p, app)
    BY <1>0, DGEntryIs
  <2> QED BY <2>1 DEF DGEntryShows
<1>8. Rises(FlattenSeq(ss))
  <2>1. \A i, j \in 1..Nel : i < j => Below(ss[i], ss[j])
    <3> SUFFICES ASSUME NEW i \in 1..Nel, NEW j \in 1..Nel, i < j, NEW m \in Range(ss[i]), NEW n \in Range(ss[j])
                 PROVE  m.id < n.id
      BY DEF Below
    <3>1. PICK p \in 1..3 : m = DGCorner(r, a, i, p, app)
      BY <1>3 DEF CornerIn
    <3>2. PICK q \in 1..3 : n = DGCorner(r, a, j, q, app)
      BY <1>3 DEF CornerIn
    <3>3. IdIn(0, 3, i, p) < IdIn(0, 3, j, q) /\ IdIn(0, 3, i, p) \in Int /\ IdIn(0, 3, j, q) \in Int
      BY DEF IdIn
    <3> QED BY <1>0, <1>7, <3>1, <3>2, <3>3
  <2> QED BY <1>1, <1>3, <1>4, <2>1, FlattenRises
<1>9. ASSUME NEW e \in 1..Nel, NEW p \in 1..3
      PROVE  /\ NodeFor(N, a, fe, DGCorner(r, a, e, p, app), <<5, e, p>>)
             /\ IsName(ShapeOf(fe), <<5, e, p>>)
             /\ IsMine(r, fe, <<5, e, p>>) <=> <<e, p>> \in DiscontinuousNodes(r)
  <2> DEFINE nm == <<5, e, p>>
  <2> DEFINE id == 3 * (e - 1) + p
  <2>1. nm[1] = 5 /\ nm[2] = e /\ nm[3] = p /\ nm \in Nat \X Nat \X Nat
    OBVIOUS
  <2>2. Count(ShapeOf(fe), 5) = Nel /\ StrideOf(ShapeOf(fe), 5) = 3 /\ First(ShapeOf(fe), 5) = 0
    BY <1>0, OwnShape
  <2> HIDE DEF nm
  <2>3. id = IdOf(ShapeOf(fe), nm)
    BY <2>1, <2>2 DEF IdOf, IdIn
  <2>4. IsName(ShapeOf(fe), nm)
    BY <2>1, <2>2 DEF IsName, Blocks
  <2>5. PressOf(fe) = "own" /\ fe \notin StokesElements
    BY DEF PressOf, StokesElements
  <2>6. VertexOf(fe, nm) = iomodel.mesh.elements[e][p]
    BY <2>1, <2>5 DEF VertexOf, Place
  <2>7. Suits(a, fe, app, nm[1])
    BY <2>5 DEF Suits
  <2> DEFINE sid == nodecounter[r] + (3 * (e - 1) + p) - 1
  <2> DEFINE v == iomodel.mesh.elements[e][p]
  <2>8. DGCorner(r, a, e, p, app) = Node(r, a, id, sid, v, app)
    BY DEF DGCorner
  <2> HIDE DEF id, sid, v
  <2>9. NodeFor(N, a, fe, Node(r, a, id, sid, v, app), nm)
    BY <1>0, <2>3, <2>6, <2>7, NodeMade DEF v
  <2>10. IsMine(r, fe, nm) <=> <<e, p>> \in DiscontinuousNodes(r)
    BY <2>1, <2>5 DEF IsMine
  <2> QED BY <2>4, <2>8, <2>9, <2>10 DEF nm
<1>10. \A nm : nm \in CreatedIn(r, fe, 5) <=> \E e \in 1..Nel, p \in 1..3 : nm = <<5, e, p>> /\ <<e, p>> \in DiscontinuousNodes(r)
  <2>1. ASSUME NEW nm \in CreatedIn(r, fe, 5)
        PROVE  \E e \in 1..Nel, p \in 1..3 : nm = <<5, e, p>> /\ <<e, p>> \in DiscontinuousNodes(r)
    <3>1. nm \in Nat \X Nat \X Nat /\ nm[1] = 5 /\ IsName(ShapeOf(fe), nm) /\ IsMine(r, fe, nm)
      BY DEF CreatedIn, Created
    <3>2. Count(ShapeOf(fe), 5) = Nel /\ StrideOf(ShapeOf(fe), 5) = 3
      BY <1>0, OwnShape
    <3>3. nm[2] \in 1..Nel /\ nm[3] \in 1..3 /\ nm = <<5, nm[2], nm[3]>>
      BY <3>1, <3>2 DEF IsName
    <3> QED BY <1>9, <3>1, <3>3
  <2>2. ASSUME NEW e \in 1..Nel, NEW p \in 1..3, <<e, p>> \in DiscontinuousNodes(r)
        PROVE  <<5, e, p>> \in CreatedIn(r, fe, 5)
    <3>1. <<5, e, p>> \in Nat \X Nat \X Nat /\ <<5, e, p>>[1] = 5
      OBVIOUS
    <3>2. IsName(ShapeOf(fe), <<5, e, p>>) /\ IsMine(r, fe, <<5, e, p>>)
      BY <1>9, <2>2
    <3> QED BY <3>1, <3>2 DEF CreatedIn, Created
  <2> QED BY <2>1, <2>2
<1> DEFINE C == CreatedIn(r, fe, 5)
<1> DEFINE W == Range(FlattenSeq(ss))
<1> HIDE DEF C, W
<1>w. \A n : n \in W <=> \E e \in 1..Nel, p \in 1..3 : <<e, p>> \in DiscontinuousNodes(r) /\ n = DGCorner(r, a, e, p, app)
  BY <1>5 DEF W, CornerIn
<1>c. \A nm : nm \in C <=> \E e \in 1..Nel, p \in 1..3 : nm = <<5, e, p>> /\ <<e, p>> \in DiscontinuousNodes(r)
  BY <1>10 DEF C
<1>n. \A e \in 1..Nel, p \in 1..3 : NodeFor(N, a, fe, DGCorner(r, a, e, p, app), <<5, e, p>>)
  BY <1>9
<1>u. \A n \in W : \E nm \in C : NodeFor(N, a, fe, n, nm)
  <2> TAKE n \in W
  <2>1. PICK e \in 1..Nel, p \in 1..3 : <<e, p>> \in DiscontinuousNodes(r) /\ n = DGCorner(r, a, e, p, app)
    BY <1>w
  <2>2. <<5, e, p>> \in C
    BY <1>c, <2>1
  <2> QED BY <1>n, <2>1, <2>2
<1>v. \A nm \in C : \E n \in W : NodeFor(N, a, fe, n, nm)
  <2> TAKE nm \in C
  <2>1. PICK e \in 1..Nel, p \in 1..3 : nm = <<5, e, p>> /\ <<e, p>> \in DiscontinuousNodes(r)
    BY <1>c
  <2>2. DGCorner(r, a, e, p, app) \in W
    BY <1>w, <2>1
  <2> QED BY <1>n, <2>1, <2>2
<1>11. \A n \in Range(FlattenSeq(ss)) : \E nm \in CreatedIn(r, fe, 5) : NodeFor(N, a, fe, n, nm)
  BY <1>u DEF C, W
<1>12. \A nm \in CreatedIn(r, fe, 5) : \E n \in Range(FlattenSeq(ss)) : NodeFor(N, a, fe, n, nm)
  BY <1>v DEF C, W
<1>13. IsList(FlattenSeq(ss))
  BY <1>6 DEF IsList
<1> QED BY <1>2, <1>8, <1>11, <1>12, <1>13 DEF Makes

-----------------------------------------------------------------------------
(***************************************************************************)
(* The nodes of the velocity, block after block.                           *)
(***************************************************************************)
LEMMA ScalarAt ==
  ASSUME NEW r \in Ranks, NEW a, NEW app
  PROVE  /\ ScalarNodes(r, a, "P1", app) = AtVertices(r, a, 0, app)
         /\ ScalarNodes(r, a, "P1DG", app) = DGNodes(a, app)[r]
         /\ ScalarNodes(r, a, "P1bubble", app) = AtVertices(r, a, 0, app) \o AtElements(r, a, Nv, app)
         /\ ScalarNodes(r, a, "P1bubblecondensed", app) =
              AtVertices(r, a, 0, app) \o HardDeactivate(AtElements(r, a, Nv, app))
         /\ ScalarNodes(r, a, "P1xP2", app) = AtVertices(r, a, 0, app) \o CountedEdges(r, a, 1, EdgeCopies(1, 0), app)
         /\ ScalarNodes(r, a, "P1xP3", app) = AtVertices(r, a, 0, app) \o CountedEdges(r, a, 2, EdgeCopies(2, 0), app)
         /\ ScalarNodes(r, a, "P2xP1", app) = AtVertices(r, a, 0, app) \o CountedEdges(r, a, 1, EdgeCopies(0, 1), app)
         /\ ScalarNodes(r, a, "P2", app) = (AtVertices(r, a, 0, app) \o AtEdges(r, a, app)) \o AtQuads(r, a, app)
         /\ ScalarNodes(r, a, "P2bubble", app) =
              ((AtVertices(r, a, 0, app) \o AtEdges(r, a, app)) \o AtQuads(r, a, app)) \o AtElements(r, a, AfterP2, app)
         /\ ScalarNodes(r, a, "P2xP4", app) =
              (AtVertices(r, a, 0, app) \o CountedEdges(r, a, 3, EdgeCopies(3, 1), app)) \o CountedQuads(r, a, EdgeCopies(3, 1), app)
<1>1. \A fe : ScalarNodes(r, a, fe, app) = ScalarOf(a, fe, app)[r]
  BY DEF ScalarOf
<1>2. \A L1, L2 : Joined(L1, L2)[r] = L1[r] \o L2[r]
  BY DEF Joined
<1>3. /\ \A off : VertexNodes(a, off, app)[r] = AtVertices(r, a, off, app)
      /\ \A off : ElementNodes(a, off, app)[r] = AtElements(r, a, off, app)
      /\ EdgeNodes(a, app)[r] = AtEdges(r, a, app) /\ QuadNodes(a, app)[r] = AtQuads(r, a, app)
  BY DEF VertexNodes, ElementNodes, EdgeNodes, QuadNodes
<1>4. /\ \A k, copies : CountedEdgeNodes(a, k, copies, app)[r] = CountedEdges(r, a, k, copies, app)
      /\ \A copies : CountedQuadNodes(a, copies, app)[r] = CountedQuads(r, a, copies, app)
      /\ \A L : Deactivated(L)[r] = HardDeactivate(L[r])
  BY DEF CountedEdgeNodes, CountedQuadNodes, Deactivated
<1>5. P2Nodes(a, app)[r] = (AtVertices(r, a, 0, app) \o AtEdges(r, a, app)) \o AtQuads(r, a, app)
  <2> DEFINE A == VertexNodes(a, 0, app)
  <2> DEFINE B == EdgeNodes(a, app)
  <2> DEFINE C == QuadNodes(a, app)
  <2>1. A[r] = AtVertices(r, a, 0, app) /\ B[r] = AtEdges(r, a, app) /\ C[r] = AtQuads(r, a, app)
    BY <1>3
  <2>2. P2Nodes(a, app) = Joined(Joined(A, B), C)
    BY DEF P2Nodes
  <2> HIDE DEF A, B, C
  <2>3. Joined(A, B)[r] = A[r] \o B[r]
    BY <1>2
  <2>4. Joined(Joined(A, B), C)[r] = Joined(A, B)[r] \o C[r]
    BY <1>2
  <2> QED BY <2>1, <2>2, <2>3, <2>4
<1> DEFINE P1 == VertexNodes(a, 0, app)
<1>6. /\ ScalarOf(a, "P1", app) = P1
      /\ ScalarOf(a, "P1DG", app) = DGNodes(a, app)
      /\ ScalarOf(a, "P1bubble", app) = Joined(P1, ElementNodes(a, Nv, app))
      /\ ScalarOf(a, "P1bubblecondensed", app) = Joined(P1, Deactivated(ElementNodes(a, Nv, app)))
      /\ ScalarOf(a, "P1xP2", app) = Joined(P1, CountedEdgeNodes(a, 1, EdgeCopies(1, 0), app))
      /\ ScalarOf(a, "P1xP3", app) = Joined(P1, CountedEdgeNodes(a, 2, EdgeCopies(2, 0), app))
      /\ ScalarOf(a, "P2xP1", app) = Joined(P1, CountedEdgeNodes(a, 1, EdgeCopies(0, 1), app))
      /\ ScalarOf(a, "P2", app) = P2Nodes(a, app)
      /\ ScalarOf(a, "P2bubble", app) = Joined(P2Nodes(a, app), ElementNodes(a, AfterP2, app))
      /\ ScalarOf(a, "P2xP4", app) =
           Joined(Joined(P1, CountedEdgeNodes(a, 3, EdgeCopies(3, 1), app)), CountedQuadNodes(a, EdgeCopies(3, 1), app))
  BY ScalarIs
<1>7. P1[r] = AtVertices(r, a, 0, app)
  BY <1>3
<1> HIDE DEF P1
<1>a. ScalarNodes(r, a, "P1", app) = AtVertices(r, a, 0, app)
  BY <1>1, <1>2, <1>3, <1>4, <1>5, <1>6, <1>7
<1>b. ScalarNodes(r, a, "P1DG", app) = DGNodes(a, app)[r]
  BY <1>1, <1>2, <1>3, <1>4, <1>5, <1>6, <1>7
<1>c. ScalarNodes(r, a, "P1bubble", app) = AtVertices(r, a, 0, app) \o AtElements(r, a, Nv, app)
  <2> DEFINE B == ElementNodes(a, Nv, app)
  <2>1. B[r] = AtElements(r, a, Nv, app)
    BY <1>3, <1>4
  <2>2. ScalarOf(a, "P1bubble", app) = Joined(P1, B)
    BY <1>6
  <2> HIDE DEF B
  <2>3. Joined(P1, B)[r] = P1[r] \o B[r]
    BY <1>2
  <2> QED BY <1>1, <1>7, <2>1, <2>2, <2>3
<1>d. ScalarNodes(r, a, "P1bubblecondensed", app) =
              AtVertices(r, a, 0, app) \o HardDeactivate(AtElements(r, a, Nv, app))
  <2> DEFINE B == Deactivated(ElementNodes(a, Nv, app))
  <2>1. B[r] = HardDeactivate(AtElements(r, a, Nv, app))
    BY <1>3, <1>4
  <2>2. ScalarOf(a, "P1bubblecondensed", app) = Joined(P1, B)
    BY <1>6
  <2> HIDE DEF B
  <2>3. Joined(P1, B)[r] = P1[r] \o B[r]
    BY <1>2
  <2> QED BY <1>1, <1>7, <2>1, <2>2, <2>3
<1>e. ScalarNodes(r, a, "P1xP2", app) = AtVertices(r, a, 0, app) \o CountedEdges(r, a, 1, EdgeCopies(1, 0), app)
  <2> DEFINE B == CountedEdgeNodes(a, 1, EdgeCopies(1, 0), app)
  <2>1. B[r] = CountedEdges(r, a, 1, EdgeCopies(1, 0), app)
    BY <1>3, <1>4
  <2>2. ScalarOf(a, "P1xP2", app) = Joined(P1, B)
    BY <1>6
  <2> HIDE DEF B
  <2>3. Joined(P1, B)[r] = P1[r] \o B[r]
    BY <1>2
  <2> QED BY <1>1, <1>7, <2>1, <2>2, <2>3
<1>f. ScalarNodes(r, a, "P1xP3", app) = AtVertices(r, a, 0, app) \o CountedEdges(r, a, 2, EdgeCopies(2, 0), app)
  <2> DEFINE B == CountedEdgeNodes(a, 2, EdgeCopies(2, 0), app)
  <2>1. B[r] = CountedEdges(r, a, 2, EdgeCopies(2, 0), app)
    BY <1>3, <1>4
  <2>2. ScalarOf(a, "P1xP3", app) = Joined(P1, B)
    BY <1>6
  <2> HIDE DEF B
  <2>3. Joined(P1, B)[r] = P1[r] \o B[r]
    BY <1>2
  <2> QED BY <1>1, <1>7, <2>1, <2>2, <2>3
<1>g. ScalarNodes(r, a, "P2xP1", app) = AtVertices(r, a, 0, app) \o CountedEdges(r, a, 1, EdgeCopies(0, 1), app)
  <2> DEFINE B == CountedEdgeNodes(a, 1, EdgeCopies(0, 1), app)
  <2>1. B[r] = CountedEdges(r, a, 1, EdgeCopies(0, 1), app)
    BY <1>3, <1>4
  <2>2. ScalarOf(a, "P2xP1", app) = Joined(P1, B)
    BY <1>6
  <2> HIDE DEF B
  <2>3. Joined(P1, B)[r] = P1[r] \o B[r]
    BY <1>2
  <2> QED BY <1>1, <1>7, <2>1, <2>2, <2>3
<1>h. ScalarNodes(r, a, "P2", app) = (AtVertices(r, a, 0, app) \o AtEdges(r, a, app)) \o AtQuads(r, a, app)
  BY <1>1, <1>2, <1>3, <1>4, <1>5, <1>6, <1>7
<1>i. ScalarNodes(r, a, "P2bubble", app) =
              ((AtVertices(r, a, 0, app) \o AtEdges(r, a, app)) \o AtQuads(r, a, app)) \o AtElements(r, a, AfterP2, app)
  <2> DEFINE A == P2Nodes(a, app)
  <2> DEFINE B == ElementNodes(a, AfterP2, app)
  <2>1. B[r] = AtElements(r, a, AfterP2, app)
    BY <1>3, <1>4
  <2>2. ScalarOf(a, "P2bubble", app) = Joined(A, B)
    BY <1>6
  <2>a. A[r] = (AtVertices(r, a, 0, app) \o AtEdges(r, a, app)) \o AtQuads(r, a, app)
    BY <1>5
  <2> HIDE DEF B, A
  <2>3. Joined(A, B)[r] = A[r] \o B[r]
    BY <1>2
  <2> QED BY <1>1, <1>7, <2>1, <2>2, <2>3, <2>a
<1>j. ScalarNodes(r, a, "P2xP4", app) =
              (AtVertices(r, a, 0, app) \o CountedEdges(r, a, 3, EdgeCopies(3, 1), app)) \o CountedQuads(r, a, EdgeCopies(3, 1), app)
  <2> DEFINE B == CountedEdgeNodes(a, 3, EdgeCopies(3, 1), app)
  <2> DEFINE C == CountedQuadNodes(a, EdgeCopies(3, 1), app)
  <2>1. B[r] = CountedEdges(r, a, 3, EdgeCopies(3, 1), app) /\ C[r] = CountedQuads(r, a, EdgeCopies(3, 1), app)
    BY <1>4
  <2>2. ScalarOf(a, "P2xP4", app) = Joined(Joined(P1, B), C)
    BY <1>6
  <2> HIDE DEF B, C
  <2>3. Joined(P1, B)[r] = P1[r] \o B[r]
    BY <1>2
  <2>4. Joined(Joined(P1, B), C)[r] = Joined(P1, B)[r] \o C[r]
    BY <1>2
  <2> QED BY <1>1, <1>7, <2>1, <2>2, <2>3, <2>4
<1> QED BY <1>a, <1>b, <1>c, <1>d, <1>e, <1>f, <1>g, <1>h, <1>i, <1>j

\* Nodes are records with six fields.
LEMMA BubblesAreNodes ==
  ASSUME Partitioned, NEW r \in Ranks, NEW a, NEW off, NEW app
  PROVE  \E R : /\ AtElements(r, a, off, app) \in Seq(R)
                /\ \A n \in R : n = [id |-> n.id, sid |-> n.sid, vertex |-> n.vertex, analysis |-> n.analysis,
                                     approximation |-> n.approximation, frozen |-> n.frozen]
<1> DEFINE R == {Node(r, a, off + i, off + i - 1, 1, app) : i \in 1..Nel}
<1> DEFINE ss == [i \in 1..Nel |-> IF i \in my_elements[r] THEN [c \in 1..1 |-> Node(r, a, off + i, off + i - 1, 1, app)] ELSE << >>]
<1>1. Nel \in Nat
  BY IoFacts
<1>2. AtElements(r, a, off, app) = FlattenSeq(ss)
  BY DEF AtElements, NodesOn, Once, Nel
<1>3. ss \in [1..Nel -> Seq(R)]
  <2> SUFFICES ASSUME NEW i \in 1..Nel
               PROVE  ss[i] \in Seq(R)
    OBVIOUS
  <2> DEFINE x == Node(r, a, off + i, off + i - 1, 1, app)
  <2>1. x \in R
    OBVIOUS
  <2>2. ss[i] = IF i \in my_elements[r] THEN [c \in 1..1 |-> x] ELSE << >>
    OBVIOUS
  <2> HIDE DEF ss, x, R
  <2>3. [c \in 1..1 |-> x] \in Seq(R)
    BY <2>1
  <2>4. << >> \in Seq(R)
    BY EmptySeq
  <2> QED BY <2>2, <2>3, <2>4
<1>4. \A n \in R : n = [id |-> n.id, sid |-> n.sid, vertex |-> n.vertex, analysis |-> n.analysis,
                        approximation |-> n.approximation, frozen |-> n.frozen]
  BY DEF Node
<1> HIDE DEF R, ss
<1>5. FlattenSeq(ss) \in Seq(R)
  BY <1>1, <1>3, RangeOfFlattened
<1> QED BY <1>2, <1>4, <1>5

\* What is made of the blocks up to b.
MakesUpTo(r, N, a, fe, s, b) == Makes(N, a, fe, s, CreatedUpTo(r, fe, b))

LEMMA FirstBlock ==
  ASSUME NEW r, NEW N, NEW a, NEW fe, NEW app, Making(r, N, a, fe, app), fe # "P1DG"
  PROVE  MakesUpTo(r, N, a, fe, AtVertices(r, a, 0, app), 1)
<1> DEFINE s == AtVertices(r, a, 0, app)
<1> DEFINE empty == << >>
<1> DEFINE zero == 0
<1> DEFINE one == 1
<1>0. Partitioned /\ N \in Nat
  BY DEF Making
<1>1. Makes(N, a, fe, s, CreatedIn(r, fe, one))
  BY CornersMade
<1>2. Makes(N, a, fe, empty, CreatedUpTo(r, fe, zero))
  BY <1>0, StartBlocks
<1>3. zero \in 0..4 /\ one \in Blocks /\ one = zero + 1
  BY DEF Blocks
<1>4. IsList(s)
  BY <1>1 DEF Makes
<1>5. empty \o s = s
  BY <1>4 DEF IsList
<1> HIDE DEF s, empty, zero, one
<1>6. Makes(N, a, fe, empty \o s, CreatedUpTo(r, fe, one))
  BY <1>0, <1>1, <1>2, <1>3, AddBlock
<1> QED BY <1>5, <1>6 DEF MakesUpTo, one, s

LEMMA NextBlock ==
  ASSUME NEW r, NEW N, NEW a, NEW fe, NEW app, Making(r, N, a, fe, app), NEW b \in 0..4, NEW s,
         MakesUpTo(r, N, a, fe, s, b), NEW d, d = b + 1
  PROVE  /\ \A t : Makes(N, a, fe, t, CreatedIn(r, fe, d)) => MakesUpTo(r, N, a, fe, s \o t, d)
         /\ StrideOf(ShapeOf(fe), d) = 0 => MakesUpTo(r, N, a, fe, s, d)
<1>1. Partitioned /\ N \in Nat /\ d \in Blocks
  BY DEF Making, Blocks
<1>2. Makes(N, a, fe, s, CreatedUpTo(r, fe, b))
  BY DEF MakesUpTo
<1>3. ASSUME NEW t, Makes(N, a, fe, t, CreatedIn(r, fe, d))
      PROVE  Makes(N, a, fe, s \o t, CreatedUpTo(r, fe, d))
  BY <1>1, <1>2, <1>3, AddBlock
<1>4. ASSUME StrideOf(ShapeOf(fe), d) = 0
      PROVE  Makes(N, a, fe, s, CreatedUpTo(r, fe, d))
  BY <1>1, <1>2, <1>4, SkipBlock
<1> QED BY <1>3, <1>4 DEF MakesUpTo

\* What the shape says of each interpolation of the velocity.
LEMMA VelocityShape ==
  ASSUME Partitioned, NEW fe, NEW v, v = VelocityInterpolation(fe), v \in ScalarElements
  PROVE  LET sh == ShapeOf(fe)
         IN  /\ sh.corner = 1 /\ sh.up = UpOf(v) /\ sh.level = LevelOf(v) /\ sh.stride = StrideOn(v)
             /\ StrideOf(sh, 2) = StrideOn(v) /\ StrideOf(sh, 3) = QuadOf(v) /\ StrideOf(sh, 4) = BubbleOf(v)
             /\ sh.quad = QuadOf(v)
             /\ v \in {"P1bubble", "P1bubblecondensed"} => First(sh, 4) = Nv
             /\ v = "P2bubble" => First(sh, 4) = AfterP2
<1> DEFINE sh == ShapeOf(fe)
<1>0. Nv \in Nat /\ Ne \in Nat /\ Nel \in Nat /\ (Kind = "penta" => Nf \in Nat)
  BY IoFacts
<1>1. v # "P1DG"
  BY DEF ScalarElements
<1>2. /\ sh.corner = 1 /\ sh.up = UpOf(v) /\ sh.level = LevelOf(v) /\ sh.stride = StrideOn(v)
      /\ sh.quad = QuadOf(v) /\ sh.bubble = BubbleOf(v)
  BY <1>1 DEF ShapeOf, Corner
<1> HIDE DEF sh
<1>3. StrideOf(sh, 2) = StrideOn(v) /\ StrideOf(sh, 3) = QuadOf(v) /\ StrideOf(sh, 4) = BubbleOf(v)
  BY <1>2 DEF StrideOf
<1>4. First2(sh) = Nv
  BY <1>0, <1>2 DEF First2, Room
<1>5. ASSUME v \in {"P1bubble", "P1bubblecondensed"}
      PROVE  First(sh, 4) = Nv
  <2>1. StrideOn(v) = 0 /\ QuadOf(v) = 0
    BY <1>5 DEF StrideOn, UpOf, QuadOf
  <2>2. NQuads \in Nat
    BY <1>0 DEF NQuads
  <2>3. Room(sh.stride, Ne) = 0 /\ Room(sh.quad, NQuads) = 0
    BY <1>0, <1>2, <2>1, <2>2 DEF Room
  <2>4. First4(sh) = Nv
    BY <1>0, <1>4, <2>3 DEF First3, First4
  <2> QED BY <2>4 DEF First
<1>6. ASSUME v = "P2bubble"
      PROVE  First(sh, 4) = AfterP2
  <2>1. StrideOn(v) = 1 /\ QuadOf(v) = IF Kind = "penta" THEN 1 ELSE 0
    BY <1>6 DEF StrideOn, UpOf, QuadOf
  <2>2. Room(sh.stride, Ne) = Ne
    BY <1>0, <1>2, <2>1 DEF Room
  <2>3. Room(sh.quad, NQuads) = IF Kind = "penta" THEN Nf ELSE 0
    BY <1>0, <1>2, <2>1 DEF Room, NQuads
  <2>4. First4(sh) = AfterP2
    BY <1>0, <1>4, <2>2, <2>3 DEF First3, First4, AfterP2, Nv, Ne, Nf, Kind
  <2> QED BY <2>4 DEF First
<1> QED BY <1>2, <1>3, <1>5, <1>6 DEF sh

VelocityCase(r, N, a, fe, app, v) ==
  /\ Making(r, N, a, fe, app) /\ v = VelocityInterpolation(fe) /\ v \in ScalarElements
  /\ v \in OfPrisms => Kind = "penta"
VelocityMakes(r, N, a, fe, app, v) == MakesUpTo(r, N, a, fe, ScalarNodes(r, a, v, app), 4)

LEMMA NoMoreBlocks ==
  ASSUME NEW r, NEW N, NEW a, NEW fe, NEW app, Making(r, N, a, fe, app), NEW s, MakesUpTo(r, N, a, fe, s, 2),
         StrideOf(ShapeOf(fe), 3) = 0
  PROVE  /\ MakesUpTo(r, N, a, fe, s, 3)
         /\ StrideOf(ShapeOf(fe), 4) = 0 => MakesUpTo(r, N, a, fe, s, 4)
<1> DEFINE two == 2
<1> DEFINE three == 3
<1> DEFINE four == 4
<1>1. two \in 0..4 /\ three = two + 1 /\ three \in 0..4 /\ four = three + 1
  OBVIOUS
<1> HIDE DEF two, three, four
<1>2. MakesUpTo(r, N, a, fe, s, three)
  BY <1>1, NextBlock DEF two, three
<1>3. StrideOf(ShapeOf(fe), four) = 0 => MakesUpTo(r, N, a, fe, s, four)
  BY <1>1, <1>2, NextBlock
<1> QED BY <1>2, <1>3 DEF three, four

LEMMA NoEdgeBlock ==
  ASSUME NEW r, NEW N, NEW a, NEW fe, NEW app, Making(r, N, a, fe, app), NEW s, MakesUpTo(r, N, a, fe, s, 1),
         StrideOf(ShapeOf(fe), 2) = 0
  PROVE  MakesUpTo(r, N, a, fe, s, 2)
<1> DEFINE two == 2
<1> DEFINE one == 1
<1>1. one \in 0..4 /\ two = one + 1
  OBVIOUS
<1> HIDE DEF two, one
<1>2. MakesUpTo(r, N, a, fe, s, two)
  BY <1>1, NextBlock DEF one, two
<1> QED BY <1>2 DEF two

LEMMA JoinBlock ==
  ASSUME NEW r, NEW N, NEW a, NEW fe, NEW app, Making(r, N, a, fe, app), NEW s, NEW t
  PROVE  /\ MakesUpTo(r, N, a, fe, s, 1) /\ Makes(N, a, fe, t, CreatedIn(r, fe, 2)) => MakesUpTo(r, N, a, fe, s \o t, 2)
         /\ MakesUpTo(r, N, a, fe, s, 2) /\ Makes(N, a, fe, t, CreatedIn(r, fe, 3)) => MakesUpTo(r, N, a, fe, s \o t, 3)
         /\ MakesUpTo(r, N, a, fe, s, 3) /\ Makes(N, a, fe, t, CreatedIn(r, fe, 4)) => MakesUpTo(r, N, a, fe, s \o t, 4)
         /\ MakesUpTo(r, N, a, fe, s, 4) /\ Makes(N, a, fe, t, CreatedIn(r, fe, 5)) => MakesUpTo(r, N, a, fe, s \o t, 5)
<1>1. ASSUME NEW b \in 0..4, NEW d, d = b + 1, MakesUpTo(r, N, a, fe, s, b), Makes(N, a, fe, t, CreatedIn(r, fe, d))
      PROVE  MakesUpTo(r, N, a, fe, s \o t, d)
  BY <1>1, NextBlock
<1> DEFINE one == 1
<1> DEFINE two == 2
<1> DEFINE three == 3
<1> DEFINE four == 4
<1> DEFINE five == 5
<1>2. one \in 0..4 /\ two \in 0..4 /\ three \in 0..4 /\ four \in 0..4
      /\ two = one + 1 /\ three = two + 1 /\ four = three + 1 /\ five = four + 1
  OBVIOUS
<1> HIDE DEF one, two, three, four, five
<1>3. MakesUpTo(r, N, a, fe, s, one) /\ Makes(N, a, fe, t, CreatedIn(r, fe, two)) => MakesUpTo(r, N, a, fe, s \o t, two)
  BY <1>1, <1>2
<1>4. MakesUpTo(r, N, a, fe, s, two) /\ Makes(N, a, fe, t, CreatedIn(r, fe, three)) => MakesUpTo(r, N, a, fe, s \o t, three)
  BY <1>1, <1>2
<1>5. MakesUpTo(r, N, a, fe, s, three) /\ Makes(N, a, fe, t, CreatedIn(r, fe, four)) => MakesUpTo(r, N, a, fe, s \o t, four)
  BY <1>1, <1>2
<1>6. MakesUpTo(r, N, a, fe, s, four) /\ Makes(N, a, fe, t, CreatedIn(r, fe, five)) => MakesUpTo(r, N, a, fe, s \o t, five)
  BY <1>1, <1>2
<1> QED BY <1>3, <1>4, <1>5, <1>6 DEF one, two, three, four, five

\* P1, and with a bubble.
LEMMA LinearMade ==
  ASSUME NEW r, NEW N, NEW a, NEW fe, NEW app, NEW v \in {"P1", "P1bubble", "P1bubblecondensed"},
         VelocityCase(r, N, a, fe, app, v)
  PROVE  VelocityMakes(r, N, a, fe, app, v)
<1> DEFINE s == AtVertices(r, a, 0, app)
<1> DEFINE bubbles == AtElements(r, a, Nv, app)
<1> DEFINE sh == ShapeOf(fe)
<1>0. Making(r, N, a, fe, app) /\ Partitioned /\ r \in Ranks /\ v = VelocityInterpolation(fe) /\ v \in ScalarElements
  BY DEF VelocityCase, Making
<1>1. fe # "P1DG"
  BY <1>0 DEF VelocityInterpolation, ScalarElements
<1>2. StrideOf(sh, 2) = 0 /\ StrideOf(sh, 3) = 0 /\ StrideOf(sh, 4) = BubbleOf(v)
  <2>1. StrideOn(v) = 0 /\ QuadOf(v) = 0
    BY DEF StrideOn, UpOf, QuadOf
  <2> QED BY <1>0, <2>1, VelocityShape
<1>3. MakesUpTo(r, N, a, fe, s, 3) /\ (StrideOf(sh, 4) = 0 => MakesUpTo(r, N, a, fe, s, 4))
  <2>1. MakesUpTo(r, N, a, fe, s, 1)
    BY <1>0, <1>1, FirstBlock
  <2> HIDE DEF s, sh
  <2>2. MakesUpTo(r, N, a, fe, s, 2)
    BY <1>0, <1>2, <2>1, NoEdgeBlock DEF sh
  <2> QED BY <1>0, <1>2, <2>2, NoMoreBlocks DEF sh
<1>4. CASE v = "P1"
  <2>1. BubbleOf(v) = 0
    BY <1>4 DEF BubbleOf
  <2>2. ScalarNodes(r, a, v, app) = s
    BY <1>0, <1>4, ScalarAt
  <2> QED BY <1>2, <1>3, <2>1, <2>2 DEF VelocityMakes
<1>5. CASE v # "P1"
  <2>1. BubbleOf(v) = 1 /\ First(sh, 4) = Nv
    <3>1. v \in {"P1bubble", "P1bubblecondensed"}
      BY <1>5
    <3>2. First(sh, 4) = Nv
      BY <1>0, <3>1, VelocityShape
    <3> QED BY <1>5, <3>2 DEF BubbleOf
  <2>2. Makes(N, a, fe, bubbles, CreatedIn(r, fe, 4))
    BY <1>0, <1>2, <2>1, BubblesMade
  <2>3. Makes(N, a, fe, HardDeactivate(bubbles), CreatedIn(r, fe, 4))
    <3>1. PICK R : /\ bubbles \in Seq(R)
                   /\ \A n \in R : n = [id |-> n.id, sid |-> n.sid, vertex |-> n.vertex, analysis |-> n.analysis,
                                        approximation |-> n.approximation, frozen |-> n.frozen]
      BY <1>0, BubblesAreNodes
    <3> HIDE DEF bubbles
    <3> DEFINE C == CreatedIn(r, fe, 4)
    <3> HIDE DEF C
    <3>2. Makes(N, a, fe, bubbles, C)
      BY <2>2 DEF C
    <3>3. Makes(N, a, fe, HardDeactivate(bubbles), C)
      BY <3>1, <3>2, MakesDeactivated
    <3> QED BY <3>3 DEF C
  <2>4. ScalarNodes(r, a, v, app) = IF v = "P1bubble" THEN s \o bubbles ELSE s \o HardDeactivate(bubbles)
    <3>1. ScalarNodes(r, a, "P1bubble", app) = s \o bubbles
      BY <1>0, ScalarAt
    <3>2. ScalarNodes(r, a, "P1bubblecondensed", app) = s \o HardDeactivate(bubbles)
      BY <1>0, ScalarAt
    <3>3. v = "P1bubble" \/ v = "P1bubblecondensed"
      BY <1>5
    <3> HIDE DEF s, bubbles
    <3> QED BY <3>1, <3>2, <3>3
  <2> HIDE DEF s, bubbles
  <2>5. MakesUpTo(r, N, a, fe, s \o bubbles, 4)
    BY <1>0, <1>3, <2>2, JoinBlock
  <2>6. MakesUpTo(r, N, a, fe, s \o HardDeactivate(bubbles), 4)
    BY <1>0, <1>3, <2>3, JoinBlock
  <2> QED BY <2>4, <2>5, <2>6 DEF VelocityMakes
<1> QED BY <1>4, <1>5

\* Nodes on some of the edges, several on one.
LEMMA SomeEdgesMade ==
  ASSUME NEW r, NEW N, NEW a, NEW fe, NEW app, NEW v \in {"P1xP2", "P1xP3", "P2xP1"},
         VelocityCase(r, N, a, fe, app, v)
  PROVE  VelocityMakes(r, N, a, fe, app, v)
<1> DEFINE s == AtVertices(r, a, 0, app)
<1> DEFINE sh == ShapeOf(fe)
<1> DEFINE k == sh.stride
<1> DEFINE x == sh.up
<1> DEFINE y == sh.level
<1> DEFINE t == CountedEdges(r, a, k, EdgeCopies(x, y), app)
<1>0. Making(r, N, a, fe, app) /\ Partitioned /\ r \in Ranks /\ v = VelocityInterpolation(fe) /\ v \in ScalarElements
  BY DEF VelocityCase, Making
<1>1. fe # "P1DG"
  BY <1>0 DEF VelocityInterpolation, ScalarElements
<1>2. /\ sh.corner = 1 /\ x = UpOf(v) /\ y = LevelOf(v) /\ k = StrideOn(v)
      /\ StrideOf(sh, 3) = 0 /\ StrideOf(sh, 4) = 0
  <2>1. QuadOf(v) = 0 /\ BubbleOf(v) = 0
    BY DEF QuadOf, BubbleOf
  <2> QED BY <1>0, <2>1, VelocityShape
<1>3. ScalarNodes(r, a, v, app) = s \o t
  <2>1. /\ v = "P1xP2" => UpOf(v) = 1 /\ LevelOf(v) = 0 /\ StrideOn(v) = 1
        /\ v = "P1xP3" => UpOf(v) = 2 /\ LevelOf(v) = 0 /\ StrideOn(v) = 2
        /\ v = "P2xP1" => UpOf(v) = 0 /\ LevelOf(v) = 1 /\ StrideOn(v) = 1
    BY DEF UpOf, LevelOf, StrideOn
  <2>2. /\ ScalarNodes(r, a, "P1xP2", app) = s \o CountedEdges(r, a, 1, EdgeCopies(1, 0), app)
        /\ ScalarNodes(r, a, "P1xP3", app) = s \o CountedEdges(r, a, 2, EdgeCopies(2, 0), app)
        /\ ScalarNodes(r, a, "P2xP1", app) = s \o CountedEdges(r, a, 1, EdgeCopies(0, 1), app)
    <3> HIDE DEF sh, k, x, y, t
    <3>1. ScalarNodes(r, a, "P1xP2", app) = s \o CountedEdges(r, a, 1, EdgeCopies(1, 0), app)
      BY <1>0, ScalarAt
    <3>2. ScalarNodes(r, a, "P1xP3", app) = s \o CountedEdges(r, a, 2, EdgeCopies(2, 0), app)
      BY <1>0, ScalarAt
    <3>3. ScalarNodes(r, a, "P2xP1", app) = s \o CountedEdges(r, a, 1, EdgeCopies(0, 1), app)
      BY <1>0, ScalarAt
    <3> QED BY <3>1, <3>2, <3>3
  <2> HIDE DEF s, sh, k, x, y
  <2> QED BY <1>2, <2>1, <2>2
<1>4. MakesUpTo(r, N, a, fe, s, 1)
  BY <1>0, <1>1, FirstBlock
<1>5. Makes(N, a, fe, t, CreatedIn(r, fe, 2))
  <2> HIDE DEF k, x, y, t
  <2>1. Makes(N, a, fe, CountedEdges(r, a, k, EdgeCopies(x, y), app), CreatedIn(r, fe, 2))
    BY <1>0, <1>2, CountedEdgesMade DEF k, x, y
  <2> QED BY <2>1 DEF t
<1> HIDE DEF s, t, k, x, y
<1> DEFINE u == s \o t
<1>6. MakesUpTo(r, N, a, fe, u, 2)
  BY <1>0, <1>4, <1>5, JoinBlock
<1> HIDE DEF u
<1>7. MakesUpTo(r, N, a, fe, u, 4)
  BY <1>0, <1>2, <1>6, NoMoreBlocks
<1> QED BY <1>3, <1>7 DEF VelocityMakes, u

\* Nodes on all edges and on the quads, and with a bubble.
LEMMA QuadraticMade ==
  ASSUME NEW r, NEW N, NEW a, NEW fe, NEW app, NEW v \in {"P2", "P2bubble"},
         VelocityCase(r, N, a, fe, app, v)
  PROVE  VelocityMakes(r, N, a, fe, app, v)
<1> DEFINE s == AtVertices(r, a, 0, app)
<1> DEFINE t == AtEdges(r, a, app)
<1> DEFINE q == AtQuads(r, a, app)
<1> DEFINE bubbles == AtElements(r, a, AfterP2, app)
<1> DEFINE sh == ShapeOf(fe)
<1>0. Making(r, N, a, fe, app) /\ Partitioned /\ r \in Ranks /\ v = VelocityInterpolation(fe) /\ v \in ScalarElements
  BY DEF VelocityCase, Making
<1>1. fe # "P1DG"
  BY <1>0 DEF VelocityInterpolation, ScalarElements
<1>2. /\ sh.corner = 1 /\ sh.up = 1 /\ sh.level = 1 /\ sh.stride = 1 /\ sh.quad = QuadOf(v)
      /\ StrideOf(sh, 3) = QuadOf(v) /\ StrideOf(sh, 4) = BubbleOf(v)
      /\ QuadOf(v) = IF Kind = "penta" THEN 1 ELSE 0
  <2>1. UpOf(v) = 1 /\ LevelOf(v) = 1 /\ StrideOn(v) = 1 /\ QuadOf(v) = IF Kind = "penta" THEN 1 ELSE 0
    BY DEF QuadOf, UpOf, LevelOf, StrideOn
  <2> QED BY <1>0, <2>1, VelocityShape
<1>3. MakesUpTo(r, N, a, fe, s, 1)
  BY <1>0, <1>1, FirstBlock
<1>4. Makes(N, a, fe, t, CreatedIn(r, fe, 2))
  BY <1>0, <1>2, EdgesMade
<1>5. Kind = "penta" => Makes(N, a, fe, q, CreatedIn(r, fe, 3))
  BY <1>0, <1>2, QuadsMade
<1>6. Kind # "penta" => q = << >>
  BY <1>0, NoQuads
<1>7. v = "P2bubble" => Makes(N, a, fe, bubbles, CreatedIn(r, fe, 4)) /\ StrideOf(sh, 4) = 1
  <2> SUFFICES ASSUME v = "P2bubble" PROVE Makes(N, a, fe, bubbles, CreatedIn(r, fe, 4)) /\ StrideOf(sh, 4) = 1
    OBVIOUS
  <2>1. First(sh, 4) = AfterP2
    BY <1>0, VelocityShape
  <2>2. StrideOf(sh, 4) = 1
    BY <1>2 DEF BubbleOf
  <2> DEFINE off == AfterP2
  <2> HIDE DEF off
  <2>3. Makes(N, a, fe, AtElements(r, a, off, app), CreatedIn(r, fe, 4))
    BY <1>0, <2>1, <2>2, BubblesMade DEF off
  <2> QED BY <2>2, <2>3 DEF off
<1>8. /\ v = "P2" => ScalarNodes(r, a, v, app) = (s \o t) \o q
      /\ v = "P2bubble" => ScalarNodes(r, a, v, app) = ((s \o t) \o q) \o bubbles
  <2>1. /\ ScalarNodes(r, a, "P2", app) = (s \o t) \o q
        /\ ScalarNodes(r, a, "P2bubble", app) = ((s \o t) \o q) \o bubbles
    BY <1>0, ScalarAt, ZenonT(60)
  <2> HIDE DEF s, t, q, bubbles
  <2> QED BY <2>1
<1> HIDE DEF s, t, q, bubbles
<1> DEFINE u == s \o t
<1> DEFINE w == u \o q
<1>9. MakesUpTo(r, N, a, fe, u, 2)
  BY <1>0, <1>3, <1>4, JoinBlock
<1> HIDE DEF u
<1>10. MakesUpTo(r, N, a, fe, w, 3)
  <2>1. CASE Kind = "penta"
    BY <1>0, <1>5, <1>9, <2>1, JoinBlock
  <2>2. CASE Kind # "penta"
    <3>1. IsList(u)
      BY <1>9 DEF MakesUpTo, Makes
    <3>2. u \o << >> = u
      BY <3>1 DEF IsList
    <3>3. w = u
      BY <1>6, <2>2, <3>2
    <3> HIDE DEF w
    <3>4. StrideOf(sh, 3) = 0
      BY <1>2, <2>2
    <3>5. MakesUpTo(r, N, a, fe, u, 3)
      BY <1>0, <1>9, <3>4, NoMoreBlocks
    <3> QED BY <3>3, <3>5
  <2> QED BY <2>1, <2>2
<1> HIDE DEF w
<1>11. v = "P2" => MakesUpTo(r, N, a, fe, w, 4)
  <2> SUFFICES ASSUME v = "P2" PROVE MakesUpTo(r, N, a, fe, w, 4)
    OBVIOUS
  <2> DEFINE three == 3
  <2> DEFINE four == 4
  <2>1. three \in 0..4 /\ four = three + 1 /\ StrideOf(sh, four) = 0
    BY <1>2 DEF BubbleOf
  <2> HIDE DEF three, four
  <2>2. MakesUpTo(r, N, a, fe, w, three)
    BY <1>10 DEF three
  <2>3. MakesUpTo(r, N, a, fe, w, four)
    BY <1>0, <2>1, <2>2, NextBlock
  <2> QED BY <2>3 DEF four
<1>12. v = "P2bubble" => MakesUpTo(r, N, a, fe, w \o bubbles, 4)
  BY <1>0, <1>7, <1>10, JoinBlock
<1>13. /\ v = "P2" => ScalarNodes(r, a, v, app) = w
       /\ v = "P2bubble" => ScalarNodes(r, a, v, app) = w \o bubbles
  BY <1>8 DEF w, u
<1> QED BY <1>11, <1>12, <1>13 DEF VelocityMakes

\* Three nodes on vertical edges and quads.
LEMMA CubicMade ==
  ASSUME NEW r, NEW N, NEW a, NEW fe, NEW app, NEW v, v = "P2xP4", VelocityCase(r, N, a, fe, app, v)
  PROVE  VelocityMakes(r, N, a, fe, app, v)
<1> DEFINE s == AtVertices(r, a, 0, app)
<1> DEFINE sh == ShapeOf(fe)
<1> DEFINE t == CountedEdges(r, a, 3, EdgeCopies(3, 1), app)
<1> DEFINE q == CountedQuads(r, a, EdgeCopies(3, 1), app)
<1>0. Making(r, N, a, fe, app) /\ Partitioned /\ r \in Ranks /\ v = VelocityInterpolation(fe) /\ v \in ScalarElements
      /\ Kind = "penta"
  BY DEF VelocityCase, Making, OfPrisms
<1>1. fe # "P1DG"
  BY <1>0 DEF VelocityInterpolation, ScalarElements
<1>2. /\ sh.corner = 1 /\ sh.up = 3 /\ sh.level = 1 /\ sh.stride = 3 /\ sh.quad = 3
      /\ StrideOf(sh, 3) = 3 /\ StrideOf(sh, 4) = 0
  <2>1. UpOf(v) = 3 /\ LevelOf(v) = 1 /\ StrideOn(v) = 3 /\ QuadOf(v) = 3 /\ BubbleOf(v) = 0
    BY <1>0 DEF QuadOf, UpOf, LevelOf, StrideOn, BubbleOf
  <2> QED BY <1>0, <2>1, VelocityShape
<1>3. ScalarNodes(r, a, v, app) = (s \o t) \o q
  <2>1. ScalarNodes(r, a, "P2xP4", app) = (s \o t) \o q
    BY <1>0, ScalarAt, ZenonT(60)
  <2> HIDE DEF s, t, q
  <2> QED BY <2>1
<1>4. MakesUpTo(r, N, a, fe, s, 1)
  BY <1>0, <1>1, FirstBlock
<1>5. Makes(N, a, fe, t, CreatedIn(r, fe, 2))
  <2> DEFINE k == 3
  <2> DEFINE x == 3
  <2> DEFINE y == 1
  <2>1. k = sh.stride /\ x = sh.up /\ y = sh.level
    BY <1>2
  <2> HIDE DEF k, x, y
  <2>2. Makes(N, a, fe, CountedEdges(r, a, k, EdgeCopies(x, y), app), CreatedIn(r, fe, 2))
    BY <1>0, <1>2, <2>1, CountedEdgesMade
  <2> QED BY <2>2 DEF k, x, y
<1>6. Makes(N, a, fe, q, CreatedIn(r, fe, 3))
  <2> DEFINE edgecopies == EdgeCopies(3, 1)
  <2> HIDE DEF edgecopies
  <2>1. Makes(N, a, fe, CountedQuads(r, a, edgecopies, app), CreatedIn(r, fe, 3))
    BY <1>0, <1>2, CountedQuadsMade
  <2> QED BY <2>1 DEF edgecopies
<1> HIDE DEF s, t, q
<1> DEFINE u == s \o t
<1> DEFINE w == u \o q
<1>7. MakesUpTo(r, N, a, fe, u, 2)
  BY <1>0, <1>4, <1>5, JoinBlock
<1> HIDE DEF u
<1>8. MakesUpTo(r, N, a, fe, w, 3)
  BY <1>0, <1>6, <1>7, JoinBlock
<1> HIDE DEF w
<1> DEFINE three == 3
<1> DEFINE four == 4
<1>9. three \in 0..4 /\ four = three + 1 /\ StrideOf(sh, four) = 0
  BY <1>2
<1> HIDE DEF three, four
<1>10. MakesUpTo(r, N, a, fe, w, three)
  BY <1>8 DEF three
<1>11. MakesUpTo(r, N, a, fe, w, four)
  BY <1>0, <1>9, <1>10, NextBlock
<1> QED BY <1>3, <1>11 DEF four, VelocityMakes, w, u

LEMMA VelocityMade ==
  ASSUME NEW r, NEW N, NEW a, NEW fe, NEW app, NEW v, VelocityCase(r, N, a, fe, app, v)
  PROVE  VelocityMakes(r, N, a, fe, app, v)
<1>1. \/ v \in {"P1", "P1bubble", "P1bubblecondensed"} \/ v \in {"P1xP2", "P1xP3", "P2xP1"}
      \/ v \in {"P2", "P2bubble"} \/ v = "P2xP4"
  BY DEF VelocityCase, ScalarElements
<1>2. CASE v \in {"P1", "P1bubble", "P1bubblecondensed"}
  BY <1>2, LinearMade
<1>3. CASE v \in {"P1xP2", "P1xP3", "P2xP1"}
  BY <1>3, SomeEdgesMade
<1>4. CASE v \in {"P2", "P2bubble"}
  BY <1>4, QuadraticMade
<1>5. CASE v = "P2xP4"
  BY <1>5, CubicMade
<1> QED BY <1>1, <1>2, <1>3, <1>4, <1>5

\* The bubbles of MINIcondensed are deactivated.
LEMMA CondensedMade ==
  ASSUME NEW r, NEW N, NEW a, NEW fe, NEW app, Making(r, N, a, fe, app), VelocityInterpolation(fe) = "P1bubble"
  PROVE  MakesUpTo(r, N, a, fe, ScalarNodes(r, a, "P1bubblecondensed", app), 4)
<1> DEFINE s == AtVertices(r, a, 0, app)
<1> DEFINE bubbles == AtElements(r, a, Nv, app)
<1> DEFINE sh == ShapeOf(fe)
<1> DEFINE v == "P1bubble"
<1>0. Making(r, N, a, fe, app) /\ Partitioned /\ r \in Ranks /\ v = VelocityInterpolation(fe) /\ v \in ScalarElements
  BY DEF Making, ScalarElements
<1>1. fe # "P1DG"
  BY <1>0 DEF VelocityInterpolation, ScalarElements
<1>2. StrideOf(sh, 2) = 0 /\ StrideOf(sh, 3) = 0 /\ StrideOf(sh, 4) = 1 /\ First(sh, 4) = Nv
  <2>1. StrideOn(v) = 0 /\ QuadOf(v) = 0 /\ BubbleOf(v) = 1
    BY DEF StrideOn, UpOf, QuadOf, BubbleOf
  <2>2. v \in {"P1bubble", "P1bubblecondensed"}
    OBVIOUS
  <2> HIDE DEF v
  <2> QED BY <1>0, <2>1, <2>2, VelocityShape
<1> HIDE DEF v
<1>3. MakesUpTo(r, N, a, fe, s, 3)
  <2>1. MakesUpTo(r, N, a, fe, s, 1)
    BY <1>0, <1>1, FirstBlock
  <2> HIDE DEF s, sh
  <2>2. MakesUpTo(r, N, a, fe, s, 2)
    BY <1>0, <1>2, <2>1, NoEdgeBlock DEF sh
  <2> QED BY <1>0, <1>2, <2>2, NoMoreBlocks DEF sh
<1>4. Makes(N, a, fe, bubbles, CreatedIn(r, fe, 4))
  BY <1>0, <1>2, BubblesMade
<1>5. Makes(N, a, fe, HardDeactivate(bubbles), CreatedIn(r, fe, 4))
  <2>1. PICK R : /\ bubbles \in Seq(R)
                 /\ \A n \in R : n = [id |-> n.id, sid |-> n.sid, vertex |-> n.vertex, analysis |-> n.analysis,
                                      approximation |-> n.approximation, frozen |-> n.frozen]
    BY <1>0, BubblesAreNodes
  <2> HIDE DEF bubbles
  <2> DEFINE C == CreatedIn(r, fe, 4)
  <2> HIDE DEF C
  <2>2. Makes(N, a, fe, bubbles, C)
    BY <1>4 DEF C
  <2>3. Makes(N, a, fe, HardDeactivate(bubbles), C)
    BY <2>1, <2>2, MakesDeactivated
  <2> QED BY <2>3 DEF C
<1>6. ScalarNodes(r, a, "P1bubblecondensed", app) = s \o HardDeactivate(bubbles)
  BY <1>0, ScalarAt
<1> HIDE DEF s, bubbles
<1>7. MakesUpTo(r, N, a, fe, s \o HardDeactivate(bubbles), 4)
  BY <1>0, <1>3, <1>5, JoinBlock
<1> QED BY <1>6, <1>7

\* The nodes of the velocity of a full Stokes element.
StokesVelocity(r, a, fe) ==
  ScalarNodes(r, a, IF fe = "MINIcondensed" THEN "P1bubblecondensed" ELSE VelocityInterpolation(fe), "FSvelocity")

StokesParts(r, a, fe) ==
  /\ ~HasPressure(fe) => StokesNodes(r, a, fe) = StokesVelocity(r, a, fe)
  /\ HasPressure(fe) /\ fe \notin {"OneLayerP4z", "CrouzeixRaviart"} =>
       StokesNodes(r, a, fe) = StokesVelocity(r, a, fe) \o AtVertices(r, a, PressureOffset(fe), "FSpressure")
  /\ fe = "OneLayerP4z" =>
       StokesNodes(r, a, fe) = StokesVelocity(r, a, fe) \o LayerNodes(a, PressureOffset(fe), LayerCounter)[r]
  /\ fe = "CrouzeixRaviart" =>
       StokesNodes(r, a, fe) = StokesVelocity(r, a, fe) \o CornerNodes(a, PressureOffset(fe))[r]

LEMMA StokesAt ==
  ASSUME NEW r \in Ranks, NEW a, NEW fe \in StokesElements
  PROVE  StokesParts(r, a, fe)
<1>1. ASSUME NEW g \in StokesElements, NEW v, NEW off,
             StokesOf(a, g) = Joined(ScalarOf(a, v, "FSvelocity"), VertexNodes(a, off, "FSpressure"))
      PROVE  StokesNodes(r, a, g) = ScalarNodes(r, a, v, "FSvelocity") \o AtVertices(r, a, off, "FSpressure")
  <2>1. StokesOf(a, g)[r] = StokesNodes(r, a, g)
    BY DEF StokesOf
  <2>2. Joined(ScalarOf(a, v, "FSvelocity"), VertexNodes(a, off, "FSpressure"))[r]
          = ScalarNodes(r, a, v, "FSvelocity") \o AtVertices(r, a, off, "FSpressure")
    BY DEF Joined, ScalarOf, VertexNodes
  <2> QED BY <1>1, <2>1, <2>2
<1>2. ASSUME NEW g \in StokesElements, NEW v, StokesOf(a, g) = ScalarOf(a, v, "FSvelocity")
      PROVE  StokesNodes(r, a, g) = ScalarNodes(r, a, v, "FSvelocity")
  <2>1. StokesOf(a, g)[r] = StokesNodes(r, a, g)
    BY DEF StokesOf
  <2>2. ScalarOf(a, v, "FSvelocity")[r] = ScalarNodes(r, a, v, "FSvelocity")
    BY DEF ScalarOf
  <2> QED BY <1>2, <2>1, <2>2
<1>3. ASSUME NEW g \in StokesElements, NEW v, NEW L, StokesOf(a, g) = Joined(ScalarOf(a, v, "FSvelocity"), L)
      PROVE  StokesNodes(r, a, g) = ScalarNodes(r, a, v, "FSvelocity") \o L[r]
  <2>1. StokesOf(a, g)[r] = StokesNodes(r, a, g)
    BY DEF StokesOf
  <2>2. Joined(ScalarOf(a, v, "FSvelocity"), L)[r] = ScalarNodes(r, a, v, "FSvelocity") \o L[r]
    BY DEF Joined, ScalarOf
  <2> QED BY <1>3, <2>1, <2>2
<1>4. CASE fe \in {"P1P1", "P1P1GLS"}
  <2>1. StokesOf(a, fe) = Joined(ScalarOf(a, "P1", "FSvelocity"), VertexNodes(a, Nv, "FSpressure"))
    BY <1>4, StokesIs
  <2>2. PressureOffset(fe) = Nv /\ VelocityInterpolation(fe) = "P1" /\ HasPressure(fe)
    BY <1>4 DEF PressureOffset, VelocityInterpolation, HasPressure, Nv
  <2>3. StokesNodes(r, a, fe) = ScalarNodes(r, a, "P1", "FSvelocity") \o AtVertices(r, a, Nv, "FSpressure")
    BY <1>1, <2>1
  <2> QED BY <1>4, <2>2, <2>3 DEF StokesParts, StokesVelocity
<1>5. CASE fe = "MINI"
  <2>1. StokesOf(a, fe) = Joined(ScalarOf(a, "P1bubble", "FSvelocity"), VertexNodes(a, Nv + Nel, "FSpressure"))
    BY <1>5, StokesIs
  <2>2. PressureOffset(fe) = Nv + Nel /\ VelocityInterpolation(fe) = "P1bubble" /\ HasPressure(fe)
    BY <1>5 DEF PressureOffset, VelocityInterpolation, HasPressure, Nv, Nel
  <2>3. StokesNodes(r, a, fe) = ScalarNodes(r, a, "P1bubble", "FSvelocity") \o AtVertices(r, a, Nv + Nel, "FSpressure")
    BY <1>1, <2>1
  <2> QED BY <1>5, <2>2, <2>3 DEF StokesParts, StokesVelocity
<1>6. CASE fe = "MINIcondensed"
  <2>1. StokesOf(a, fe) = Joined(ScalarOf(a, "P1bubblecondensed", "FSvelocity"), VertexNodes(a, Nv + Nel, "FSpressure"))
    BY <1>6, StokesIs
  <2>2. PressureOffset(fe) = Nv + Nel /\ HasPressure(fe)
    BY <1>6 DEF PressureOffset, HasPressure, Nv, Nel
  <2>3. StokesNodes(r, a, fe) = ScalarNodes(r, a, "P1bubblecondensed", "FSvelocity") \o AtVertices(r, a, Nv + Nel, "FSpressure")
    BY <1>1, <2>1
  <2> QED BY <1>6, <2>2, <2>3 DEF StokesParts, StokesVelocity
<1>7. CASE fe \in {"TaylorHood", "XTaylorHood"}
  <2>1. StokesOf(a, fe) = Joined(ScalarOf(a, "P2", "FSvelocity"), VertexNodes(a, AfterP2, "FSpressure"))
    BY <1>7, StokesIs
  <2>2. PressureOffset(fe) = AfterP2 /\ VelocityInterpolation(fe) = "P2" /\ HasPressure(fe)
    BY <1>7 DEF PressureOffset, VelocityInterpolation, HasPressure
  <2>3. StokesNodes(r, a, fe) = ScalarNodes(r, a, "P2", "FSvelocity") \o AtVertices(r, a, AfterP2, "FSpressure")
    BY <1>1, <2>1
  <2> QED BY <1>7, <2>2, <2>3 DEF StokesParts, StokesVelocity
<1>8. CASE fe = "LATaylorHood"
  <2>1. StokesOf(a, fe) = ScalarOf(a, "P2", "FSvelocity")
    BY <1>8, StokesIs
  <2>2. VelocityInterpolation(fe) = "P2" /\ ~HasPressure(fe)
    BY <1>8 DEF VelocityInterpolation, HasPressure
  <2>3. StokesNodes(r, a, fe) = ScalarNodes(r, a, "P2", "FSvelocity")
    BY <1>2, <2>1
  <2> QED BY <1>8, <2>2, <2>3 DEF StokesParts, StokesVelocity
<1>9. CASE fe = "OneLayerP4z"
  <2> DEFINE off == Nv + 3 * Ne + 3 * Nf
  <2>1. StokesOf(a, fe) = Joined(ScalarOf(a, "P2xP4", "FSvelocity"), LayerNodes(a, off, LayerCounter))
    BY <1>9, StokesIs
  <2>2. PressureOffset(fe) = off /\ VelocityInterpolation(fe) = "P2xP4" /\ HasPressure(fe)
    BY <1>9 DEF PressureOffset, VelocityInterpolation, HasPressure, Nv, Ne, Nf
  <2> HIDE DEF off
  <2>3. StokesNodes(r, a, fe) = ScalarNodes(r, a, "P2xP4", "FSvelocity") \o LayerNodes(a, off, LayerCounter)[r]
    BY <1>3, <2>1
  <2> QED BY <1>9, <2>2, <2>3 DEF StokesParts, StokesVelocity
<1>10. CASE fe = "CrouzeixRaviart"
  <2> DEFINE off == AfterP2 + Nel
  <2>1. StokesOf(a, fe) = Joined(ScalarOf(a, "P2bubble", "FSvelocity"), CornerNodes(a, off))
    BY <1>10, StokesIs
  <2>2. PressureOffset(fe) = off /\ VelocityInterpolation(fe) = "P2bubble" /\ HasPressure(fe)
    BY <1>10 DEF PressureOffset, VelocityInterpolation, HasPressure, Nel
  <2> HIDE DEF off
  <2>3. StokesNodes(r, a, fe) = ScalarNodes(r, a, "P2bubble", "FSvelocity") \o CornerNodes(a, off)[r]
    BY <1>3, <2>1
  <2> QED BY <1>10, <2>2, <2>3 DEF StokesParts, StokesVelocity
<1>11. CASE fe = "LACrouzeixRaviart"
  <2>1. StokesOf(a, fe) = ScalarOf(a, "P2bubble", "FSvelocity")
    BY <1>11, StokesIs
  <2>2. VelocityInterpolation(fe) = "P2bubble" /\ ~HasPressure(fe)
    BY <1>11 DEF VelocityInterpolation, HasPressure
  <2>3. StokesNodes(r, a, fe) = ScalarNodes(r, a, "P2bubble", "FSvelocity")
    BY <1>2, <2>1
  <2> QED BY <1>11, <2>2, <2>3 DEF StokesParts, StokesVelocity
<1> QED BY <1>4, <1>5, <1>6, <1>7, <1>8, <1>9, <1>10, <1>11 DEF StokesElements

\* A finite element of an analysis that is solved.
IsElementOf(fe, a) == IsSolved(a) /\ fe = FiniteElement(a) /\ HasTable(fe)

Creating(r, N, a, fe) ==
  Partitioned /\ r \in Ranks /\ N \in Nat /\ nodecounter[r] = N /\ AnalysisIs(a) /\ IsElementOf(fe, a)

LEMMA ElementKinds ==
  ASSUME NEW r, NEW N, NEW a, NEW fe, Creating(r, N, a, fe)
  PROVE  /\ fe \in StokesElements => a.name = "Stressbalance" /\ CreateNodes(r, a) = StokesNodes(r, a, fe)
         /\ fe \notin StokesElements => CreateNodes(r, a) = ScalarNodes(r, a, fe, a.model) /\ fe \in ScalarElements \cup {"P1DG"}
         /\ fe = "P1DG" => Kind = "tria"
         /\ VelocityInterpolation(fe) \in OfPrisms => Kind = "penta"
         /\ fe = "OneLayerP4z" => Kind = "penta"
<1>1. IsSolved(a) /\ fe = FiniteElement(a) /\ HasTable(fe) /\ AnalysisIs(a) /\ Kind \in {"tria", "tetra", "penta"}
  BY KindIs DEF Creating, IsElementOf
<1>2. "P1" \notin StokesElements /\ "P1DG" \notin StokesElements
  BY DEF StokesElements
<1>3. fe \in StokesElements => a.name = "Stressbalance" /\ a.model # "L1L2" /\ fe = a.fe
  BY <1>1, <1>2 DEF FiniteElement
<1>4. fe \in StokesElements => a.model = "FS"
  BY <1>1, <1>3 DEF AnalysisIs
<1>5. fe \notin StokesElements => ~(a.name = "Stressbalance" /\ a.model = "FS")
  <2>1. ASSUME a.name = "Stressbalance", a.model = "FS"
        PROVE  fe \in StokesElements
    BY <1>1, <2>1 DEF AnalysisIs, FiniteElement
  <2> QED BY <2>1
<1>6. fe \in StokesElements => CreateNodes(r, a) = StokesNodes(r, a, fe)
  BY <1>1, <1>3, <1>4 DEF CreateNodes
<1>7. fe \notin StokesElements => CreateNodes(r, a) = ScalarNodes(r, a, fe, a.model)
  BY <1>1, <1>5 DEF CreateNodes
<1>8. fe \in StokesElements \cup ScalarElements \cup {"P1DG"}
  <2>1. CASE Kind = "tria"
    BY <1>1, <2>1 DEF HasTable, TableFor, ScalarElements
  <2>2. CASE Kind = "tetra"
    <3>1. fe \in {"P1", "P1bubble", "P1bubblecondensed", "P2", "LATaylorHood", "MINI", "MINIcondensed",
                  "TaylorHood", "XTaylorHood"}
      BY <1>1, <2>2 DEF HasTable, TableFor
    <3> QED BY <3>1 DEF ScalarElements, StokesElements
  <2>3. CASE Kind = "penta"
    BY <1>1, <2>3 DEF HasTable, TableFor
  <2> QED BY <1>1, <2>1, <2>2, <2>3
<1>9. fe = "P1DG" => Kind = "tria"
  BY <1>1 DEF HasTable, TableFor, ScalarElements, StokesElements
<1>10. /\ VelocityInterpolation(fe) \in OfPrisms => Kind = "penta"
       /\ fe = "OneLayerP4z" => Kind = "penta"
  <2>1. VelocityInterpolation(fe) \in OfPrisms => fe \in OfPrisms
    BY DEF VelocityInterpolation, OfPrisms
  <2>2. fe \in OfPrisms => Kind = "penta"
    BY <1>1 DEF HasTable, TableFor, OfPrisms, StokesElements
  <2>3. "OneLayerP4z" \in OfPrisms
    BY DEF OfPrisms
  <2> QED BY <2>1, <2>2, <2>3
<1> QED BY <1>3, <1>6, <1>7, <1>8, <1>9, <1>10

\* Velocity, then pressure.
LEMMA StokesNodesMade ==
  ASSUME NEW r, NEW N, NEW a, NEW fe, Creating(r, N, a, fe), fe \in StokesElements
  PROVE  MakesUpTo(r, N, a, fe, StokesNodes(r, a, fe), 5)
<1> DEFINE v == VelocityInterpolation(fe)
<1> DEFINE s == StokesVelocity(r, a, fe)
<1>1. Making(r, N, a, fe, "FSvelocity") /\ Partitioned /\ r \in Ranks
  BY ElementKinds DEF Creating, Making
<1>2. v \in ScalarElements /\ (v \in OfPrisms => Kind = "penta") /\ fe # "P1DG"
  BY ElementKinds DEF VelocityInterpolation, ScalarElements, StokesElements
<1>3. MakesUpTo(r, N, a, fe, s, 4)
  <2>1. CASE fe = "MINIcondensed"
    <3>1. VelocityInterpolation(fe) = "P1bubble"
      BY <2>1 DEF VelocityInterpolation
    <3>2. MakesUpTo(r, N, a, fe, ScalarNodes(r, a, "P1bubblecondensed", "FSvelocity"), 4)
      BY <1>1, <3>1, CondensedMade
    <3> QED BY <2>1, <3>2 DEF StokesVelocity
  <2>2. CASE fe # "MINIcondensed"
    <3>1. VelocityCase(r, N, a, fe, "FSvelocity", v)
      BY <1>1, <1>2 DEF VelocityCase
    <3>2. MakesUpTo(r, N, a, fe, ScalarNodes(r, a, v, "FSvelocity"), 4)
      BY <3>1, VelocityMade DEF VelocityMakes
    <3> QED BY <2>2, <3>2 DEF StokesVelocity
  <2> QED BY <2>1, <2>2
<1>4. StokesParts(r, a, fe)
  BY <1>1, StokesAt
<1> HIDE DEF s, v
<1>5. CASE ~HasPressure(fe)
  <2>1. StokesNodes(r, a, fe) = s
    BY <1>4, <1>5 DEF StokesParts, s
  <2>2. StrideOf(ShapeOf(fe), 5) = 0
    <3>1. PressOf(fe) = "none"
      BY <1>2, <1>5 DEF PressOf, HasPressure, StokesElements
    <3> QED BY <3>1, ShapeIsGood DEF StrideOf
  <2>3. MakesUpTo(r, N, a, fe, s, 5)
    <3> DEFINE four == 4
    <3> DEFINE five == 5
    <3>1. four \in 0..4 /\ five = four + 1 /\ MakesUpTo(r, N, a, fe, s, four) /\ StrideOf(ShapeOf(fe), five) = 0
      BY <1>3, <2>2
    <3> HIDE DEF four, five
    <3>2. MakesUpTo(r, N, a, fe, s, five)
      BY <1>1, <3>1, NextBlock
    <3> QED BY <3>2 DEF five
  <2> QED BY <2>1, <2>3
<1>6. CASE HasPressure(fe)
  <2> DEFINE off == PressureOffset(fe)
  <2>1. off = First(ShapeOf(fe), 5)
    <3>1. First5(ShapeOf(fe)) = off
      BY <1>1, <1>6, ElementKinds, PressureFirst
    <3> HIDE DEF off
    <3> QED BY <3>1 DEF First
  <2> HIDE DEF off
  <2>2. \A t : Makes(N, a, fe, t, CreatedIn(r, fe, 5)) => MakesUpTo(r, N, a, fe, s \o t, 5)
    BY <1>1, <1>3, JoinBlock
  <2>3. CASE fe = "CrouzeixRaviart"
    <3>1. Makes(N, a, fe, CornerNodes(a, off)[r], CreatedIn(r, fe, 5))
      BY <1>1, <2>1, <2>3, CornerPressuresMade
    <3>2. StokesNodes(r, a, fe) = s \o CornerNodes(a, off)[r]
      BY <1>4, <2>3 DEF StokesParts, s, off
    <3> QED BY <2>2, <3>1, <3>2
  <2>4. CASE fe # "CrouzeixRaviart"
    <3>1. PressureContext(r, N, a, fe, off)
      <4>1. PressOf(fe) = "vertex"
        BY <1>2, <1>6, <2>4 DEF PressOf, HasPressure
      <4> QED BY <1>1, <2>1, <4>1 DEF PressureContext
    <3>2. /\ Makes(N, a, fe, AtVertices(r, a, off, "FSpressure"), CreatedIn(r, fe, 5))
          /\ Makes(N, a, fe, LayerNodes(a, off, LayerCounter)[r], CreatedIn(r, fe, 5))
      BY <3>1, VertexPressuresMade
    <3>3. StokesNodes(r, a, fe) = s \o AtVertices(r, a, off, "FSpressure")
            \/ StokesNodes(r, a, fe) = s \o LayerNodes(a, off, LayerCounter)[r]
      BY <1>4, <1>6, <2>4 DEF StokesParts, s, off
    <3> QED BY <2>2, <3>2, <3>3
  <2> QED BY <2>3, <2>4
<1> QED BY <1>5, <1>6

\* One field.
LEMMA ScalarNodesMade ==
  ASSUME NEW r, NEW N, NEW a, NEW fe, Creating(r, N, a, fe), fe \in ScalarElements, NEW app
  PROVE  MakesUpTo(r, N, a, fe, ScalarNodes(r, a, fe, app), 5)
<1>1. VelocityInterpolation(fe) = fe /\ fe \notin StokesElements /\ fe # "P1DG"
  BY DEF VelocityInterpolation, ScalarElements, StokesElements
<1>2. Making(r, N, a, fe, app)
  BY <1>1 DEF Creating, Making
<1>3. VelocityCase(r, N, a, fe, app, fe)
  BY <1>1, <1>2, ElementKinds DEF VelocityCase
<1> DEFINE s == ScalarNodes(r, a, fe, app)
<1>4. MakesUpTo(r, N, a, fe, s, 4)
  BY <1>3, VelocityMade DEF VelocityMakes
<1> HIDE DEF s
<1>5. StrideOf(ShapeOf(fe), 5) = 0
  <2>1. PressOf(fe) = "none"
    BY <1>1 DEF PressOf, ScalarElements
  <2> QED BY <2>1, ShapeIsGood DEF StrideOf
<1> DEFINE four == 4
<1> DEFINE five == 5
<1>6. four \in 0..4 /\ five = four + 1 /\ MakesUpTo(r, N, a, fe, s, four) /\ StrideOf(ShapeOf(fe), five) = 0
  BY <1>4, <1>5
<1> HIDE DEF four, five
<1>7. MakesUpTo(r, N, a, fe, s, five)
  BY <1>2, <1>6, NextBlock
<1> QED BY <1>7 DEF five, s

\* The discontinuous Galerkin method has the nodes at its corners only.
LEMMA OwnNodesMade ==
  ASSUME NEW r, NEW N, NEW a, Creating(r, N, a, "P1DG"), NEW app
  PROVE  MakesUpTo(r, N, a, "P1DG", ScalarNodes(r, a, "P1DG", app), 5)
<1> DEFINE fe == "P1DG"
<1>1. Partitioned /\ r \in Ranks /\ N \in Nat /\ Kind = "tria" /\ fe \notin StokesElements
  BY ElementKinds DEF Creating, StokesElements
<1>2. Making(r, N, a, fe, app)
  BY <1>1 DEF Creating, Making
<1>3. Makes(N, a, fe, DGNodes(a, app)[r], CreatedIn(r, fe, 5))
  BY <1>1, <1>2, DGMade
<1>4. \A b \in 1..4 : StrideOf(ShapeOf(fe), b) = 0
  BY <1>1, OwnShape
<1>5. ScalarNodes(r, a, fe, app) = DGNodes(a, app)[r]
  BY <1>1, ScalarAt
<1>6. MakesUpTo(r, N, a, fe, << >>, 0)
  BY <1>1, StartBlocks DEF MakesUpTo
<1> HIDE DEF fe
<1>7. \A b \in 0..3 : MakesUpTo(r, N, a, fe, << >>, b) => MakesUpTo(r, N, a, fe, << >>, b + 1)
  <2>1. ASSUME NEW b \in 0..3, MakesUpTo(r, N, a, fe, << >>, b)
        PROVE  MakesUpTo(r, N, a, fe, << >>, b + 1)
    <3> DEFINE d == b + 1
    <3>1. b \in 0..4 /\ d \in 1..4
      OBVIOUS
    <3>2. StrideOf(ShapeOf(fe), d) = 0
      BY <1>4, <3>1
    <3> QED BY <1>2, <2>1, <3>1, <3>2, NextBlock
  <2> QED BY <2>1
<1>8. MakesUpTo(r, N, a, fe, << >>, 4)
  <2>1. MakesUpTo(r, N, a, fe, << >>, 0 + 1)
    BY <1>6, <1>7
  <2>2. MakesUpTo(r, N, a, fe, << >>, 1 + 1)
    BY <1>7, <2>1
  <2>3. MakesUpTo(r, N, a, fe, << >>, 2 + 1)
    BY <1>7, <2>2
  <2>4. MakesUpTo(r, N, a, fe, << >>, 3 + 1)
    BY <1>7, <2>3
  <2> QED BY <2>4
<1> DEFINE t == DGNodes(a, app)[r]
<1>9. Makes(N, a, fe, t, CreatedIn(r, fe, 5))
  BY <1>3
<1>10. << >> \o t = t
  <2>1. IsList(t)
    BY <1>9 DEF Makes
  <2> HIDE DEF t
  <2> QED BY <2>1, ConcatProperties, EmptySeq DEF IsList
<1> HIDE DEF t
<1>11. MakesUpTo(r, N, a, fe, << >> \o t, 5)
  BY <1>2, <1>8, <1>9, JoinBlock
<1> QED BY <1>5, <1>10, <1>11 DEF fe, t

(***************************************************************************)
(* What a rank creates.  For every finite element CreateNodes makes, for   *)
(* the vertices, edges, faces and elements that the rank has, the vertices *)
(* it is paired with and the triangles across its sides, all of the nodes  *)
(* of the analysis and no other, one for each name and in the order of     *)
(* their ids.                                                              *)
(***************************************************************************)
THEOREM NodesAreNamed ==
  ASSUME NEW r, NEW N, NEW a, NEW fe, Creating(r, N, a, fe)
  PROVE  Makes(N, a, fe, CreateNodes(r, a), Created(r, fe))
<1>1. MakesUpTo(r, N, a, fe, CreateNodes(r, a), 5)
  <2>1. CASE fe \in StokesElements
    BY <2>1, ElementKinds, StokesNodesMade
  <2>2. CASE fe \in ScalarElements /\ fe \notin StokesElements
    <3>1. MakesUpTo(r, N, a, fe, ScalarNodes(r, a, fe, a.model), 5)
      BY <2>2, ScalarNodesMade
    <3> QED BY <2>2, <3>1, ElementKinds
  <2>3. CASE fe = "P1DG" /\ fe \notin StokesElements
    <3>1. MakesUpTo(r, N, a, fe, ScalarNodes(r, a, fe, a.model), 5)
      BY <2>3, OwnNodesMade
    <3> QED BY <2>3, <3>1, ElementKinds
  <2> QED BY <2>1, <2>2, <2>3, ElementKinds
<1>2. CreatedUpTo(r, fe, 5) = Created(r, fe)
  BY StartBlocks DEF Creating
<1> QED BY <1>1, <1>2 DEF MakesUpTo

-----------------------------------------------------------------------------
(***************************************************************************)
(* A rank creates the nodes of its elements, and others only for its       *)
(* pairs of vertices and its fluxes.                                       *)
(***************************************************************************)

Marked(r) == Sound /\ r \in Ranks /\ my_vertices[r] = MyVertices(my_elements[r])

\* The vertices of its elements get a mark, and no others but those paired with one that has one.
LEMMA MarksCome ==
  ASSUME NEW r, Marked(r)
  PROVE  /\ \A e \in my_elements[r], p \in 1..Nc : Place(e, p) \in MyVertexSet(r)
         /\ \A v \in MyVertexSet(r) : v \in Paired(r) \/ \E e \in my_elements[r], p \in 1..Nc : v = Place(e, p)
<1> DEFINE s == AllPairs(setting)
<1> DEFINE n == Len(s)
<1> DEFINE own == Own(my_elements[r])
<1> DEFINE m == my_vertices[r]
<1>0. Partitioned /\ my_elements[r] \subseteq 1..Nel /\ Vertices = 1..Nv
  BY IoFacts DEF Marked, Sound, Partitioned
<1>1. /\ IsPairs(s, n, Vertices)
      /\ \A p : (\E i \in 1..n : s[i] = p) <=>
           p \in Range(setting.pairing.stressbalance) \cup Range(setting.pairing.masstransport)
  BY <1>0, PairsAreOneFold
<1>2. PICK h : Steps(h, "pair", own, s, n, m)
  BY <1>0, PairsAreOneFold DEF Marked
<1>3. own \in Marking(Vertices)
      /\ \A v \in Vertices : own[v] = IF \E e \in my_elements[r] : v \in Range(iomodel.mesh.elements[e])
                                        THEN 1 ELSE 0
  BY DEF Own, Marking
<1>4. \A i \in 1..n : m[s[i][1]] # 0 => s[i][2] \in Paired(r)
  <2> HIDE DEF s, n, m
  <2>1. \A i \in 1..n : s[i] \in Range(setting.pairing.stressbalance) \cup Range(setting.pairing.masstransport)
    BY <1>1
  <2> QED BY <2>1 DEF Paired, m
<1>5. \A e \in my_elements[r] : Range(iomodel.mesh.elements[e]) = {Place(e, p) : p \in 1..Nc}
  <2>1. ASSUME NEW e \in my_elements[r]
        PROVE  Range(iomodel.mesh.elements[e]) = {Place(e, p) : p \in 1..Nc}
    <3>1. DOMAIN iomodel.mesh.elements[e] = 1..Nc
      BY <1>0, ElementIs
    <3> QED BY <3>1 DEF Range, Place
  <2> QED BY <2>1
<1>6. \A e \in my_elements[r], p \in 1..Nc : Place(e, p) \in Vertices
  BY <1>0, ElementIs
<1> HIDE DEF s, n, own, m
<1>7. n \in Nat /\ h[n] = m /\ h[0] = own /\ n \in 0..n /\ 0 \in 0..n
  BY <1>1, <1>2 DEF IsPairs, Steps
<1>8. /\ \A v \in Vertices : own[v] # 0 => m[v] = own[v]
      /\ \A v \in Vertices : m[v] # 0 /\ own[v] = 0 => \E j \in 1..n : s[j][2] = v /\ h[j - 1][s[j][1]] # 0
  BY <1>1, <1>2, <1>3, <1>7, MarksGrow
<1>9. \A j \in 1..n : h[j - 1][s[j][1]] # 0 => m[s[j][1]] # 0
  <2> SUFFICES ASSUME NEW j \in 1..n, h[j - 1][s[j][1]] # 0 PROVE m[s[j][1]] # 0
    OBVIOUS
  <2>1. j - 1 \in 0..n /\ s[j][1] \in Vertices
    BY <1>1, <1>7 DEF IsPairs
  <2>2. \A i \in 0..n : \A x \in Vertices : h[i][x] # 0 => h[n][x] = h[i][x]
    BY <1>1, <1>2, <1>3, <1>7, MarksGrow
  <2> QED BY <1>7, <2>1, <2>2
<1>10. ASSUME NEW e \in my_elements[r], NEW p \in 1..Nc
       PROVE  Place(e, p) \in MyVertexSet(r)
  <2>1. Place(e, p) \in Vertices /\ Place(e, p) \in Range(iomodel.mesh.elements[e])
    BY <1>5, <1>6
  <2>2. own[Place(e, p)] = 1
    BY <1>3, <2>1
  <2>3. m[Place(e, p)] # 0
    BY <1>8, <2>1, <2>2
  <2> QED BY <2>1, <2>3 DEF MyVertexSet, m
<1>11. ASSUME NEW v \in MyVertexSet(r), v \notin Paired(r)
       PROVE  \E e \in my_elements[r], p \in 1..Nc : v = Place(e, p)
  <2>1. v \in Vertices /\ m[v] # 0
    BY DEF MyVertexSet, m
  <2>2. own[v] # 0
    BY <1>4, <1>8, <1>9, <1>11, <2>1
  <2>3. PICK e \in my_elements[r] : v \in Range(iomodel.mesh.elements[e])
    BY <1>3, <2>1, <2>2
  <2> QED BY <1>5, <2>3
<1> QED BY <1>10, <1>11

LEMMA MyThings ==
  ASSUME NEW r, Marked(r)
  PROVE  /\ \A i : i \in MyEdges(r) <=> \E e \in my_elements[r], k \in DOMAIN Local : i = EdgeNo(e, k)
         /\ Kind = "penta" =>
              /\ \A i : i \in MyFaces(r) <=> \E e \in my_elements[r], k \in 1..5 : i = FaceNo(e, k)
              /\ \A e \in my_elements[r], k \in 1..5 : FaceNo(e, k) \in Quads <=> k \in 3..5
<1>0. Partitioned /\ Sound /\ my_elements[r] \subseteq 1..Nel
  BY IoFacts DEF Marked, Sound, Partitioned
<1>1. \A e \in my_elements[r] : DOMAIN iomodel.elementEdges[e] = DOMAIN Local
  BY <1>0, EdgeNumbers
<1>2. \A i : i \in MyEdges(r) <=> \E e \in my_elements[r] : i \in Range(iomodel.elementEdges[e])
  BY DEF MyEdges
<1>3. \A e \in my_elements[r] : \A i : i \in Range(iomodel.elementEdges[e]) <=> \E k \in DOMAIN Local : i = EdgeNo(e, k)
  BY <1>1 DEF Range, EdgeNo
<1>4. ASSUME Kind = "penta"
      PROVE  /\ \A i : i \in MyFaces(r) <=> \E e \in my_elements[r], k \in 1..5 : i = FaceNo(e, k)
             /\ \A e \in my_elements[r], k \in 1..5 : FaceNo(e, k) \in Quads <=> k \in 3..5
  <2>1. \A e \in my_elements[r] : DOMAIN iomodel.elementFaces[e] = 1..5
    BY <1>0, <1>4, FaceNumbers
  <2>2. \A i : i \in MyFaces(r) <=> \E e \in my_elements[r] : i \in Range(iomodel.elementFaces[e])
    BY DEF MyFaces
  <2>3. \A e \in my_elements[r] : \A i : i \in Range(iomodel.elementFaces[e]) <=> \E k \in 1..5 : i = FaceNo(e, k)
    BY <2>1 DEF Range, FaceNo
  <2>4. ASSUME NEW e \in my_elements[r], NEW k \in 1..5
        PROVE  FaceNo(e, k) \in Quads <=> k \in 3..5
    <3>1. FaceNo(e, k) \in DOMAIN iomodel.faces
      BY <1>0, <1>4, FaceNumbers, IoFacts
    <3>2. (k \in 1..2 => iomodel.faces[FaceNo(e, k)].marker = 1) /\ (k \in 3..5 => iomodel.faces[FaceNo(e, k)].marker = 2)
      BY <1>0, <1>4, FacesAre
    <3> QED BY <3>1, <3>2 DEF Quads
  <2>5. ASSUME NEW i
        PROVE  i \in MyFaces(r) <=> \E e \in my_elements[r], k \in 1..5 : i = FaceNo(e, k)
    <3>1. ASSUME i \in MyFaces(r) PROVE \E e \in my_elements[r], k \in 1..5 : i = FaceNo(e, k)
      <4>1. PICK e \in my_elements[r] : i \in Range(iomodel.elementFaces[e])
        BY <2>2, <3>1
      <4> QED BY <2>3, <4>1
    <3>2. ASSUME NEW e \in my_elements[r], NEW k \in 1..5, i = FaceNo(e, k) PROVE i \in MyFaces(r)
      <4>1. i \in Range(iomodel.elementFaces[e])
        BY <2>3, <3>2
      <4> QED BY <2>2, <4>1
    <3> QED BY <3>1, <3>2
  <2> QED BY <2>4, <2>5
<1>5. ASSUME NEW i
      PROVE  i \in MyEdges(r) <=> \E e \in my_elements[r], k \in DOMAIN Local : i = EdgeNo(e, k)
  <2>1. ASSUME i \in MyEdges(r) PROVE \E e \in my_elements[r], k \in DOMAIN Local : i = EdgeNo(e, k)
    <3>1. PICK e \in my_elements[r] : i \in Range(iomodel.elementEdges[e])
      BY <1>2, <2>1
    <3> QED BY <1>3, <3>1
  <2>2. ASSUME NEW e \in my_elements[r], NEW k \in DOMAIN Local, i = EdgeNo(e, k) PROVE i \in MyEdges(r)
    <3>1. i \in Range(iomodel.elementEdges[e])
      BY <1>3, <2>2
    <3> QED BY <1>2, <3>1
  <2> QED BY <2>1, <2>2
<1> QED BY <1>4, <1>5

\* The names of the nodes of an element of the rank.
LEMMA OwnAreCreated ==
  ASSUME NEW r, Marked(r), NEW fe, fe = "P1DG" => Kind = "tria", NEW e \in my_elements[r],
         NEW nm, Has(ShapeOf(fe), e, nm)
  PROVE  nm \in Created(r, fe)
<1> DEFINE sh == ShapeOf(fe)
<1>0. Partitioned /\ Sound /\ e \in 1..Nel /\ GoodShape(sh) /\ sh.press = PressOf(fe)
  BY IoFacts, ShapeIsGood DEF Marked, Sound, Partitioned
<1> HIDE DEF sh
<1>1. IsName(sh, nm)
  BY <1>0, HasIsName DEF sh
<1> SUFFICES IsMine(r, fe, nm)
  BY <1>1 DEF Created, IsName, sh
<1>2. CASE CornerName(sh, e, nm)
  <2>1. PICK p \in 1..Nc : nm = <<1, Place(e, p), 1>>
    BY <1>2 DEF CornerName
  <2>2. nm[1] = 1 /\ nm[2] = Place(e, p) /\ Place(e, p) \in MyVertexSet(r)
    BY <2>1, MarksCome
  <2> QED BY <2>2 DEF IsMine
<1>3. CASE EdgeName(sh, e, nm)
  <2>1. PICK k \in DOMAIN Local : \E c \in 1..CopiesOn(sh, Local[k][3]) : nm = <<2, EdgeNo(e, k), c>>
    BY <1>3 DEF EdgeName
  <2>2. PICK c \in 1..CopiesOn(sh, Local[k][3]) : nm = <<2, EdgeNo(e, k), c>>
    BY <2>1
  <2>3. EdgeNo(e, k) \in MyEdges(r) /\ iomodel.edges[EdgeNo(e, k)].marker = Local[k][3]
    BY <1>0, MyThings, EdgeMarkers
  <2>4. nm[1] = 2 /\ nm[2] = EdgeNo(e, k) /\ nm[3] = c /\ c <= CopiesOn(sh, Local[k][3])
    BY <2>2
  <2> QED BY <2>3, <2>4 DEF IsMine, sh
<1>4. CASE QuadName(sh, e, nm)
  <2>1. PICK k \in 3..5 : \E c \in 1..sh.quad : nm = <<3, FaceNo(e, k), c>>
    BY <1>4 DEF QuadName
  <2>2. nm[1] = 3 /\ nm[2] = FaceNo(e, k) /\ Kind = "penta" /\ k \in 1..5
    BY <1>4, <2>1 DEF QuadName
  <2>3. FaceNo(e, k) \in MyFaces(r) /\ FaceNo(e, k) \in Quads
    BY <2>2, MyThings
  <2> QED BY <2>2, <2>3 DEF IsMine
<1>5. CASE BubbleName(sh, e, nm)
  BY <1>5 DEF BubbleName, IsMine
<1>6. CASE sh.press = "vertex" /\ \E p \in 1..Nc : nm = <<5, Place(e, p), 1>>
  <2>1. PICK p \in 1..Nc : nm = <<5, Place(e, p), 1>>
    BY <1>6
  <2>2. nm[1] = 5 /\ nm[2] = Place(e, p) /\ Place(e, p) \in MyVertexSet(r)
    BY <2>1, MarksCome
  <2> QED BY <1>0, <1>6, <2>2 DEF IsMine
<1>7. CASE sh.press = "own" /\ \E p \in 1..Nc : nm = <<5, e, p>>
  <2>1. PICK p \in 1..Nc : nm = <<5, e, p>>
    BY <1>7
  <2>2. nm[1] = 5 /\ nm[2] = e /\ nm[3] = p /\ PressOf(fe) = "own"
    BY <1>0, <1>7, <2>1
  <2>3. fe = "P1DG" => <<e, p>> \in DiscontinuousNodes(r)
    <3>1. fe = "P1DG" => p \in 1..3
      BY <1>0, IoFacts DEF Nc
    <3> QED BY <3>1 DEF DiscontinuousNodes
  <2> QED BY <2>2, <2>3 DEF IsMine
<1> QED BY <1>2, <1>3, <1>4, <1>5, <1>6, <1>7 DEF Has, VelocityName, PressureName, sh

OwnName(r, fe, nm)  == \E e \in my_elements[r] : Has(ShapeOf(fe), e, nm)
PairName(r, fe, nm) == nm[1] \in {1, 5} /\ VertexOf(fe, nm) \in Paired(r)
\* A node of a neighbour, for a flux.
FluxName(r, fe, nm) ==
  /\ fe = "P1DG" /\ nm[1] = 5 /\ nm[2] \notin my_elements[r] /\ nm[2] \in 1..Nel /\ nm[3] \in 1..Nc
  /\ <<nm[2], nm[3]>> \in DiscontinuousNodes(r)

\* Whatever a rank creates is for something.
LEMMA CreatedAreUsed ==
  ASSUME NEW r, Marked(r), NEW fe, NEW nm \in Created(r, fe)
  PROVE  OwnName(r, fe, nm) \/ PairName(r, fe, nm) \/ FluxName(r, fe, nm)
<1> DEFINE sh == ShapeOf(fe)
<1> DEFINE i == nm[2]
<1> DEFINE c == nm[3]
<1>0. Partitioned /\ Sound /\ GoodShape(sh) /\ sh.press = PressOf(fe) /\ my_elements[r] \subseteq 1..Nel
  BY IoFacts, ShapeIsGood DEF Marked, Sound, Partitioned
<1>1. IsName(sh, nm) /\ IsMine(r, fe, nm)
  BY DEF Created
<1>2. nm = <<nm[1], i, c>> /\ nm[1] \in Blocks /\ i \in 1..Count(sh, nm[1]) /\ c \in 1..StrideOf(sh, nm[1])
  BY <1>1 DEF IsName
<1> HIDE DEF sh
<1>3. ASSUME NEW e \in my_elements[r], VelocityName(sh, e, nm) \/ PressureName(sh, e, nm)
      PROVE  OwnName(r, fe, nm)
  BY <1>3 DEF OwnName, Has, sh
<1>4. CASE nm[1] = 1
  <2>1. i \in MyVertexSet(r) /\ VertexOf(fe, nm) = i /\ c \in 1..sh.corner
    BY <1>1, <1>2, <1>4 DEF IsMine, VertexOf, StrideOf
  <2>2. sh.corner = 1 /\ c = 1
    BY <1>0, <2>1 DEF GoodShape, Shapes
  <2>3. CASE i \in Paired(r)
    BY <1>4, <2>1, <2>3 DEF PairName
  <2>4. CASE \E e \in my_elements[r], p \in 1..Nc : i = Place(e, p)
    <3>1. PICK e \in my_elements[r], p \in 1..Nc : i = Place(e, p)
      BY <2>4
    <3>2. nm = <<1, Place(e, p), 1>>
      BY <1>2, <1>4, <2>2, <3>1
    <3>3. VelocityName(sh, e, nm)
      BY <2>2, <3>2 DEF VelocityName, CornerName
    <3> QED BY <1>3, <3>3
  <2> QED BY <2>1, <2>3, <2>4, MarksCome
<1>5. CASE nm[1] = 2
  <2>1. i \in MyEdges(r) /\ c <= CopiesOn(sh, iomodel.edges[i].marker) /\ c \in 1..sh.stride
    BY <1>1, <1>2, <1>5 DEF IsMine, StrideOf, sh
  <2>2. PICK e \in my_elements[r], k \in DOMAIN Local : i = EdgeNo(e, k)
    BY <2>1, MyThings
  <2>3. iomodel.edges[i].marker = Local[k][3]
    BY <1>0, <2>2, EdgeMarkers
  <2>4. CopiesOn(sh, Local[k][3]) \in Nat /\ sh.stride \in Nat
    BY <1>0 DEF CopiesOn, GoodShape, Shapes
  <2>5. c \in 1..CopiesOn(sh, Local[k][3])
    BY <2>1, <2>3, <2>4
  <2>6. VelocityName(sh, e, nm)
    BY <1>2, <1>5, <2>2, <2>5 DEF VelocityName, EdgeName
  <2> QED BY <1>3, <2>6
<1>6. CASE nm[1] = 3
  <2>1. i \in MyFaces(r) /\ i \in Quads /\ c \in 1..sh.quad
    BY <1>1, <1>2, <1>6 DEF IsMine, StrideOf
  <2>2. Kind = "penta"
    <3>1. sh.quad \in {0, 1, 3} /\ (sh.quad # 0 => Kind = "penta")
      BY <1>0 DEF GoodShape, Shapes
    <3> QED BY <2>1, <3>1
  <2>3. PICK e \in my_elements[r], k \in 1..5 : i = FaceNo(e, k)
    BY <2>1, <2>2, MyThings
  <2>4. k \in 3..5
    BY <2>1, <2>2, <2>3, MyThings
  <2>5. VelocityName(sh, e, nm)
    BY <1>2, <1>6, <2>1, <2>2, <2>3, <2>4 DEF VelocityName, QuadName
  <2> QED BY <1>3, <2>5
<1>7. CASE nm[1] = 4
  <2>1. i \in my_elements[r] /\ c \in 1..sh.bubble
    BY <1>1, <1>2, <1>7 DEF IsMine, StrideOf
  <2>2. sh.bubble = 1 /\ c = 1
    BY <1>0, <2>1 DEF GoodShape, Shapes
  <2>3. VelocityName(sh, i, nm)
    BY <1>2, <1>7, <2>2 DEF VelocityName, BubbleName
  <2> QED BY <1>3, <2>1, <2>3
<1>8. CASE nm[1] = 5 /\ PressOf(fe) = "vertex"
  <2>1. i \in MyVertexSet(r) /\ VertexOf(fe, nm) = i /\ c \in 1..1
    BY <1>0, <1>1, <1>2, <1>8 DEF IsMine, VertexOf, StrideOf
  <2>2. c = 1
    BY <2>1
  <2>3. CASE i \in Paired(r)
    BY <1>8, <2>1, <2>3 DEF PairName
  <2>4. CASE \E e \in my_elements[r], p \in 1..Nc : i = Place(e, p)
    <3>1. PICK e \in my_elements[r], p \in 1..Nc : i = Place(e, p)
      BY <2>4
    <3>2. nm = <<5, Place(e, p), 1>>
      BY <1>2, <1>8, <2>2, <3>1
    <3>3. PressureName(sh, e, nm)
      BY <1>0, <1>8, <3>2 DEF PressureName
    <3> QED BY <1>3, <3>3
  <2> QED BY <2>1, <2>3, <2>4, MarksCome
<1>9. CASE nm[1] = 5 /\ PressOf(fe) # "vertex"
  <2>1. PressOf(fe) = "own" /\ c \in 1..Nc /\ i \in 1..Nel
    <3>1. PressOf(fe) \in {"own", "vertex", "none"}
      BY DEF PressOf
    <3>2. PressOf(fe) # "none"
      BY <1>0, <1>2, <1>9 DEF StrideOf
    <3> QED BY <1>0, <1>2, <1>9, <3>1, <3>2 DEF StrideOf, Count
  <2>2. ASSUME i \in my_elements[r]
        PROVE  OwnName(r, fe, nm)
    <3>1. PressureName(sh, i, nm)
      BY <1>0, <1>2, <1>9, <2>1 DEF PressureName
    <3> QED BY <1>3, <2>2, <3>1
  <2>3. IF fe = "P1DG" THEN <<i, c>> \in DiscontinuousNodes(r) ELSE i \in my_elements[r]
    BY <1>1, <1>9 DEF IsMine
  <2> QED BY <1>9, <2>1, <2>2, <2>3 DEF FluxName
<1> QED BY <1>2, <1>4, <1>5, <1>6, <1>7, <1>8, <1>9 DEF Blocks

-----------------------------------------------------------------------------
(***************************************************************************)
(* The nodes of a neighbour are those of a flux.                           *)
(***************************************************************************)
Following(p) == IF p = 3 THEN 1 ELSE p + 1

LEMMA SidesAre ==
  ASSUME NEW e, NEW k \in 1..3
  PROVE  SidesOf(iomodel.mesh, e)[k] = <<Place(e, k), Place(e, Following(k))>>
<1>1. k = 1 \/ k = 2 \/ k = 3
  OBVIOUS
<1> QED BY <1>1 DEF SidesOf, Place, Following

LEMMA SamePair ==
  ASSUME NEW x, NEW y, NEW v, NEW w, {x, y} = {v, w}
  PROVE  (x = v /\ y = w) \/ (x = w /\ y = v)
OBVIOUS

\* A side with two elements goes round the second one the other way.
LEMMA SecondSide ==
  ASSUME Sound, Kind = "tria", WellOriented(iomodel.mesh), NEW f \in Range(iomodel.faces),
         f.e2 # 0, f.e2 # f.e1
  PROVE  /\ f.e1 \in 1..Nel /\ f.e2 \in 1..Nel
         /\ \E p \in 1..3 : f.v[2] = Place(f.e2, p) /\ f.v[1] = Place(f.e2, Following(p))
<1> DEFINE mesh == iomodel.mesh
<1>0. IsMesh(mesh) /\ iomodel.faces = Faces2d(mesh) /\ Partitioned
  BY MeshIsKnown DEF Sound
<1>1. f \in SideRecords(mesh)
  <2>1. Faces2d(mesh) \in Seq(SideRecords(mesh))
    BY <1>0, SidesFound
  <2>2. \A S, s : s \in Seq(S) => Range(s) \subseteq S
    BY DEF Range
  <2> QED BY <1>0, <2>1, <2>2
<1>2. DOMAIN mesh.elements = 1..Nel
  BY <1>0, MeshFacts DEF Nel, NumberOfElements
<1>3. f.e1 \in 1..Nel /\ f.e2 \in 1..Nel
  BY <1>1, <1>2 DEF SideRecords, SideFields
<1>4. PICK k \in 1..3 : f.v = SidesOf(mesh, f.e1)[k]
  BY <1>1 DEF SideRecords
<1>5. PICK l \in 1..3 : Between2(f.v) = Between2(SidesOf(mesh, f.e2)[l])
  BY <1>1 DEF SideRecords
<1>6. f.v = <<Place(f.e1, k), Place(f.e1, Following(k))>>
  BY <1>4, SidesAre
<1>7. SidesOf(mesh, f.e2)[l] = <<Place(f.e2, l), Place(f.e2, Following(l))>>
  BY SidesAre
<1>8. f.v # SidesOf(mesh, f.e2)[l]
  BY <1>2, <1>3, <1>4 DEF WellOriented
<1>9. {f.v[1], f.v[2]} = {Place(f.e2, l), Place(f.e2, Following(l))}
  BY <1>5, <1>7 DEF Between2
<1>10. f.v[1] # Place(f.e2, l) \/ f.v[2] # Place(f.e2, Following(l))
  BY <1>6, <1>7, <1>8
<1>11. f.v[1] = Place(f.e2, Following(l)) /\ f.v[2] = Place(f.e2, l)
  BY <1>9, <1>10, SamePair
<1> QED BY <1>3, <1>11

LEMMA PlaceIsFound ==
  ASSUME Sound, Kind = "tria", NEW e \in 1..Nel, NEW p \in 1..3
  PROVE  PlaceOf(Place(e, p), e) = p
<1>1. Nc = 3 /\ Len(iomodel.mesh.elements[e]) = 3
  BY IoFacts DEF Sound, Nc
<1>2. DOMAIN iomodel.mesh.elements[e] = 1..3
  <2>1. IsMesh(iomodel.mesh) /\ Partitioned
    BY MeshIsKnown DEF Sound
  <2>2. e \in DOMAIN iomodel.mesh.elements
    BY <2>1, MeshFacts DEF Nel, NumberOfElements
  <2>3. DOMAIN iomodel.mesh.elements[e] = 1..CornersOf(iomodel.mesh.kind)
    BY <2>1, <2>2, MeshFacts
  <2> QED BY <1>1, <2>3 DEF Nc, Kind
<1>3. \A q \in 1..3 : Place(e, q) = Place(e, p) => q = p
  BY <1>1, CornersDiffer
<1> QED BY <1>2, <1>3 DEF PlaceOf, Place

\* The nodes of a foreign face are the two at the ends of the side in the second element.
LEMMA ForeignNodes ==
  ASSUME Sound, Kind = "tria", WellOriented(iomodel.mesh), NEW r \in Ranks,
         NEW e, NEW c, <<e, c>> \in DiscontinuousNodes(r), e \notin my_elements[r]
  PROVE  \E f \in Range(iomodel.faces) :
           /\ f.e1 \in my_elements[r] /\ f.e2 # 0 /\ f.e2 = e
           /\ \E j \in 1..2 : c = PlaceOf(f.v[j], e)
<1>1. PICK f \in Range(iomodel.faces) :
        /\ f.e1 \in my_elements[r] /\ f.e2 # 0 /\ f.e2 \notin my_elements[r] /\ f.e2 = e
        /\ \/ c = PlaceOf(f.v[1], e)
           \/ c = (IF PlaceOf(f.v[1], e) = 1 THEN 3 ELSE PlaceOf(f.v[1], e) - 1)
  BY DEF DiscontinuousNodes
<1>2. f.e2 # f.e1
  BY <1>1
<1>3. e \in 1..Nel
  BY <1>1, <1>2, SecondSide
<1>4. PICK p \in 1..3 : f.v[2] = Place(e, p) /\ f.v[1] = Place(e, Following(p))
  BY <1>1, <1>2, SecondSide
<1>5. Following(p) \in 1..3
  BY DEF Following
<1>6. PlaceOf(f.v[2], e) = p /\ PlaceOf(f.v[1], e) = Following(p)
  BY <1>3, <1>4, <1>5, PlaceIsFound
<1>7. c = PlaceOf(f.v[1], e) \/ c = PlaceOf(f.v[2], e)
  <2>1. CASE c = PlaceOf(f.v[1], e)
    BY <2>1
  <2>2. CASE c = (IF PlaceOf(f.v[1], e) = 1 THEN 3 ELSE PlaceOf(f.v[1], e) - 1)
    BY <1>6, <2>2 DEF Following
  <2> QED BY <1>1, <2>1, <2>2
<1>8. \E j \in 1..2 : c = PlaceOf(f.v[j], e)
  BY <1>7
<1> QED BY <1>1, <1>8

\* A node that is there for a flux is one of its nodes.
HasFlux(r, a, id) == \E l \in Numericalfluxes(r, a) : l.analysis = a.name /\ id \in Range(l.nodes)
LEMMA FluxesResolve ==
  ASSUME NEW r, Marked(r), Kind = "tria", WellOriented(iomodel.mesh), NEW N \in Nat, nodecounter[r] = N, NEW a,
         NEW nm, FluxName(r, "P1DG", nm)
  PROVE  HasFlux(r, a, N + IdOf(ShapeOf("P1DG"), nm))
<1> DEFINE e == nm[2]
<1> DEFINE c == nm[3]
<1>0. Sound /\ Partitioned /\ r \in Ranks /\ Nc = 3
  BY IoFacts DEF Marked, Sound, Nc
<1>1. nm[1] = 5 /\ e \notin my_elements[r] /\ e \in 1..Nel /\ c \in 1..3 /\ <<e, c>> \in DiscontinuousNodes(r)
  BY <1>0 DEF FluxName
<1>2. IdOf(ShapeOf("P1DG"), nm) = 3 * (e - 1) + c
  <2>1. First(ShapeOf("P1DG"), 5) = 0 /\ StrideOf(ShapeOf("P1DG"), 5) = 3
    BY <1>0, OwnShape
  <2> QED BY <1>1, <2>1 DEF IdOf, IdIn
<1>3. PICK f \in Range(iomodel.faces) :
        /\ f.e1 \in my_elements[r] /\ f.e2 # 0 /\ f.e2 = e
        /\ \E j \in 1..2 : c = PlaceOf(f.v[j], e)
  BY <1>0, <1>1, ForeignNodes
<1>4. PICK j \in 1..2 : c = PlaceOf(f.v[j], e)
  BY <1>3
<1> DEFINE id(x, v) == nodecounter[r] + 3 * (x - 1) + PlaceOf(v, x)
<1> DEFINE ns == <<id(f.e1, f.v[1]), id(f.e1, f.v[2]), id(f.e2, f.v[1]), id(f.e2, f.v[2])>>
<1> DEFINE l == Load(a, "flux", f.v \o f.v, ns, <<f.e1>>)
<1>5. l \in Numericalfluxes(r, a)
  BY <1>3 DEF Numericalfluxes
<1>6. l.analysis = a.name /\ l.nodes = ns
  BY DEF Load
<1>7. N + (3 * (e - 1) + c) = ns[2 + j]
  <2>1. N + (3 * (e - 1) + c) = id(e, f.v[j])
    BY <1>1, <1>4
  <2>2. j = 1 \/ j = 2
    OBVIOUS
  <2> QED BY <1>3, <2>1, <2>2
<1>8. 2 + j \in DOMAIN ns
  OBVIOUS
<1>9. N + (3 * (e - 1) + c) \in Range(l.nodes)
  BY <1>6, <1>7, <1>8 DEF Range
<1> QED BY <1>2, <1>5, <1>6, <1>9 DEF HasFlux

-----------------------------------------------------------------------------
(***************************************************************************)
(* The inductive invariant.  B[i] is the counter of the nodes when the     *)
(* ranks are at analysis i.                                                *)
(***************************************************************************)
HasMade(r, i) == i < current[r] \/ (i = current[r] /\ pc[r] \in {"counters", "done"})

Works(i, a, fe) == a = setting.analyses[i] /\ IsSolved(a) /\ fe = FiniteElement(a)

\* What Update gives to the elements of rank r, with the counter at N.
HooksFrom(N, r, a) ==
  [e \in Elements |->
     IF e \in my_elements[r] /\ IsSolved(a)
       THEN LET ids == NodeIds(iomodel, FiniteElement(a), e) IN [k \in DOMAIN ids |-> N + ids[k]]
       ELSE << >>]

HasLoad(ls, a, id) == \E l \in ls : l.analysis = a.name /\ id \in Range(l.nodes)

\* The elements of a rank have the ids of their nodes.
RankHooks(B, r) == \A i \in Analyses : HasMade(r, i) => hooks[r][i] = HooksFrom(B[i], r, setting.analyses[i])

\* Every name that it is to make has a node, every node has such a name, and a node that is
\* there for a flux has one.
RankFinds(B, r) ==
  \A i \in Analyses : \A a, fe : HasMade(r, i) /\ Works(i, a, fe) =>
    \A nm \in Created(r, fe) : \E n \in Range(nodes[r]) : NodeFor(B[i], a, fe, n, nm)
RankKnows(B, r) ==
  \A n \in Range(nodes[r]) : \E i \in Analyses : \E a, fe :
    HasMade(r, i) /\ Works(i, a, fe) /\ \E nm \in Created(r, fe) : NodeFor(B[i], a, fe, n, nm)
RankFluxes(B, r) ==
  \A i \in Analyses : \A a, fe : HasMade(r, i) /\ Works(i, a, fe) =>
    \A nm : FluxName(r, fe, nm) => HasLoad(loads[r], a, B[i] + IdOf(ShapeOf(fe), nm))
RankAt(B, r) ==
  /\ pc[r] # "done" => nodecounter[r] = B[current[r]]
  /\ pc[r] = "done" => current[r] = Len(setting.analyses)
  /\ pc[r] = "partition" => current[r] = 1

RankInv(B, r) ==
  /\ RankAt(B, r) /\ Rises(nodes[r])
  /\ RankHooks(B, r) /\ RankFinds(B, r) /\ RankKnows(B, r) /\ RankFluxes(B, r)

\* The ids of an analysis are at most the counter of the ones after.
AnalysesApart(B) ==
  \A r, q \in Ranks : \A i, j \in Analyses : \A a, fe :
    i < j /\ j <= current[r] /\ Works(i, a, fe) =>
      \A nm \in Created(q, fe) : B[i] + IdOf(ShapeOf(fe), nm) <= B[j]

Dated ==
  /\ DOMAIN hooks = Ranks /\ DOMAIN loads = Ranks
  /\ \A r \in Ranks : DOMAIN hooks[r] = Analyses

CountedFrom(B) ==
  /\ B \in [Analyses -> Nat] /\ AnalysesApart(B)
  /\ \A r \in Ranks : RankInv(B, r)

HooksInv == Dated /\ \E B : CountedFrom(B)

-----------------------------------------------------------------------------
(* The names of a rank depend on its elements and vertices, and on the mesh. *)
Stays(q) == /\ iomodel' = iomodel /\ setting' = setting
            /\ my_elements'[q] = my_elements[q] /\ my_vertices'[q] = my_vertices[q]

LEMMA StaysMesh ==
  ASSUME NEW q, Stays(q)
  PROVE  /\ Nv' = Nv /\ Nel' = Nel /\ Ne' = Ne /\ Nf' = Nf /\ Kind' = Kind /\ Nc' = Nc /\ NQuads' = NQuads
         /\ MyVertexSet(q)' = MyVertexSet(q) /\ MyEdges(q)' = MyEdges(q) /\ MyFaces(q)' = MyFaces(q)
         /\ Quads' = Quads /\ DiscontinuousNodes(q)' = DiscontinuousNodes(q)
<1> USE DEF Stays, Nv, Nel, Ne, Nf, NumberOfVertices, NumberOfElements, NumberOfEdges, NumberOfFaces
<1>1. Nv' = Nv /\ Nel' = Nel /\ Ne' = Ne /\ Nf' = Nf /\ Kind' = Kind
  BY DEF Kind
<1>2. Nc' = Nc /\ NQuads' = NQuads
  BY <1>1 DEF Nc, NQuads
<1>3. MyVertexSet(q)' = MyVertexSet(q)
  BY DEF MyVertexSet, Vertices
<1>4. MyEdges(q)' = MyEdges(q)
  BY DEF MyEdges
<1>5. MyFaces(q)' = MyFaces(q)
  BY DEF MyFaces
<1>6. Quads' = Quads
  BY DEF Quads
<1>7. DiscontinuousNodes(q)' = DiscontinuousNodes(q)
  <2> DEFINE foreign == {f \in Range(iomodel.faces) :
                          /\ iomodel.mesh.domain = "2Dhorizontal"
                          /\ f.e1 \in my_elements[q] /\ f.e2 # 0 /\ f.e2 \notin my_elements[q]}
  <2>1. foreign' = foreign
    OBVIOUS
  <2> QED BY <2>1 DEF DiscontinuousNodes, PlaceOf
<1> QED BY <1>1, <1>2, <1>3, <1>4, <1>5, <1>6, <1>7

LEMMA StaysShapes ==
  ASSUME NEW q, Stays(q), NEW fe
  PROVE  /\ ShapeOf(fe)' = ShapeOf(fe)
         /\ \A b \in Blocks : /\ Count(ShapeOf(fe), b)' = Count(ShapeOf(fe), b)
                              /\ StrideOf(ShapeOf(fe), b)' = StrideOf(ShapeOf(fe), b)
                              /\ First(ShapeOf(fe), b)' = First(ShapeOf(fe), b)
<1> DEFINE sh == ShapeOf(fe)
<1>1. sh' = sh
  BY StaysMesh DEF ShapeOf, QuadOf
<1> HIDE DEF sh
<1>2. ASSUME NEW b \in Blocks
      PROVE  Count(sh, b)' = Count(sh, b) /\ StrideOf(sh, b)' = StrideOf(sh, b)
  BY <1>1, StaysMesh DEF Count, StrideOf
<1>3. First2(sh)' = First2(sh)
  BY <1>1, StaysMesh DEF First2, Room
<1>4. First3(sh)' = First3(sh)
  BY <1>1, <1>3, StaysMesh DEF First3, Room
<1>5. First4(sh)' = First4(sh)
  BY <1>1, <1>4, StaysMesh DEF First4, Room
<1>6. First5(sh)' = First5(sh)
  BY <1>1, <1>5, StaysMesh DEF First5, Room
<1>7. ASSUME NEW b \in Blocks
      PROVE  First(sh, b)' = First(sh, b)
  BY <1>3, <1>4, <1>5, <1>6 DEF First
<1> QED BY <1>1, <1>2, <1>7 DEF sh

LEMMA StaysNames ==
  ASSUME NEW q, Stays(q), NEW fe, NEW nm, nm[1] \in Blocks
  PROVE  /\ IsName(ShapeOf(fe), nm)' <=> IsName(ShapeOf(fe), nm)
         /\ IdOf(ShapeOf(fe), nm)' = IdOf(ShapeOf(fe), nm)
         /\ IsMine(q, fe, nm)' <=> IsMine(q, fe, nm)
         /\ \A N, a, n : NodeFor(N, a, fe, n, nm)' <=> NodeFor(N, a, fe, n, nm)
<1> DEFINE sh == ShapeOf(fe)
<1>1. /\ sh' = sh /\ Count(sh, nm[1])' = Count(sh, nm[1]) /\ StrideOf(sh, nm[1])' = StrideOf(sh, nm[1])
      /\ First(sh, nm[1])' = First(sh, nm[1])
  BY StaysShapes
<1>2. CopiesOn(sh, iomodel.edges[nm[2]].marker)' = CopiesOn(sh, iomodel.edges[nm[2]].marker)
  BY <1>1 DEF CopiesOn, Stays
<1> HIDE DEF sh
<1>3. IsName(sh, nm)' <=> IsName(sh, nm)
  BY <1>1 DEF IsName
<1>4. IdOf(sh, nm)' = IdOf(sh, nm)
  BY <1>1 DEF IdOf, IdIn
<1>5. IsMine(q, fe, nm)' <=> IsMine(q, fe, nm)
  <2>1. my_elements'[q] = my_elements[q]
    BY DEF Stays
  <2>2. /\ MyVertexSet(q)' = MyVertexSet(q) /\ MyEdges(q)' = MyEdges(q) /\ MyFaces(q)' = MyFaces(q)
        /\ Quads' = Quads /\ DiscontinuousNodes(q)' = DiscontinuousNodes(q)
    BY StaysMesh
  <2>3. CASE nm[1] = 1
    BY <2>2, <2>3 DEF IsMine
  <2>4. CASE nm[1] = 2
    BY <1>2, <2>2, <2>4 DEF IsMine, sh
  <2>5. CASE nm[1] = 3
    BY <2>2, <2>5 DEF IsMine
  <2>6. CASE nm[1] = 4
    BY <2>1, <2>6 DEF IsMine
  <2>7. CASE nm[1] = 5
    BY <2>1, <2>2, <2>7 DEF IsMine
  <2> QED BY <2>3, <2>4, <2>5, <2>6, <2>7 DEF Blocks
<1>6. VertexOf(fe, nm)' = VertexOf(fe, nm)
  BY DEF VertexOf, Place, Stays
<1>7. ASSUME NEW N, NEW a, NEW n
      PROVE  NodeFor(N, a, fe, n, nm)' <=> NodeFor(N, a, fe, n, nm)
  BY <1>4, <1>6 DEF NodeFor, sh
<1> QED BY <1>3, <1>4, <1>5, <1>7 DEF sh

LEMMA StaysCreated ==
  ASSUME NEW q, Stays(q), NEW fe
  PROVE  /\ Created(q, fe)' = Created(q, fe)
         /\ \A nm \in Created(q, fe) : nm[1] \in Blocks
         /\ \A nm : FluxName(q, fe, nm)' <=> FluxName(q, fe, nm)
<1>1. \A nm : IsName(ShapeOf(fe), nm) => nm[1] \in Blocks
  BY DEF IsName
<1>2. (\A nm : IsName(ShapeOf(fe), nm) => nm[1] \in Blocks)'
  BY DEF IsName
<1>3. \A nm \in Created(q, fe) : nm[1] \in Blocks
  BY <1>1 DEF Created
<1>4. ASSUME NEW nm
      PROVE  (nm \in Created(q, fe))' <=> nm \in Created(q, fe)
  <2>1. CASE nm[1] \in Blocks
    BY <2>1, StaysNames DEF Created
  <2>2. CASE nm[1] \notin Blocks
    BY <1>1, <1>2, <2>2 DEF Created
  <2> QED BY <2>1, <2>2
<1>5. Created(q, fe)' = Created(q, fe)
  BY <1>4
<1>6. ASSUME NEW nm
      PROVE  FluxName(q, fe, nm)' <=> FluxName(q, fe, nm)
  <2>1. my_elements'[q] = my_elements[q]
    BY DEF Stays
  <2> QED BY <2>1, StaysMesh DEF FluxName
<1> QED BY <1>3, <1>5, <1>6

-----------------------------------------------------------------------------
(* A rank that makes nothing in the step.                                  *)
LEMMA StaysHooks ==
  ASSUME NEW q, Stays(q), NEW N, NEW a
  PROVE  HooksFrom(N, q, a)' = HooksFrom(N, q, a)
BY DEF HooksFrom, Stays, Elements, NumberOfElements

LEMMA StaysWork ==
  ASSUME setting' = setting
  PROVE  /\ Analyses' = Analyses
         /\ \A i : \A a, fe : Works(i, a, fe)' <=> Works(i, a, fe)
BY DEF Works, Analyses

NothingNew(B, C, q) ==
  /\ Stays(q) /\ nodes'[q] = nodes[q] /\ hooks'[q] = hooks[q] /\ loads'[q] = loads[q]
  /\ \A i \in Analyses : /\ HasMade(q, i)' <=> HasMade(q, i)
                         /\ HasMade(q, i) => C[i] = B[i]

LEMMA NothingNewKeeps ==
  ASSUME NEW q, NEW B, NEW C, NothingNew(B, C, q), RankInv(B, q), RankAt(C, q)'
  PROVE  RankInv(C, q)'
<1>0. Stays(q) /\ setting' = setting /\ nodes'[q] = nodes[q] /\ hooks'[q] = hooks[q] /\ loads'[q] = loads[q]
  BY DEF NothingNew, Stays
<1>1. Analyses' = Analyses /\ \A i : \A a, fe : Works(i, a, fe)' <=> Works(i, a, fe)
  BY <1>0, StaysWork
<1>2. \A i \in Analyses : /\ HasMade(q, i)' <=> HasMade(q, i)
                          /\ HasMade(q, i) => C[i] = B[i]
  BY DEF NothingNew
<1>3. \A fe : Created(q, fe)' = Created(q, fe) /\ \A nm \in Created(q, fe) : nm[1] \in Blocks
  BY <1>0, StaysCreated
<1>4. \A fe, nm : FluxName(q, fe, nm)' <=> FluxName(q, fe, nm)
  BY <1>0, StaysCreated
<1>5. \A fe, nm : nm[1] \in Blocks => IdOf(ShapeOf(fe), nm)' = IdOf(ShapeOf(fe), nm)
  BY <1>0, StaysNames
<1>6. \A fe, nm : nm[1] \in Blocks => \A N, a, n : NodeFor(N, a, fe, n, nm)' <=> NodeFor(N, a, fe, n, nm)
  BY <1>0, StaysNames
<1>7. Rises(nodes[q])'
  BY <1>0 DEF RankInv, Rises
<1>8. RankHooks(C, q)'
  <2> SUFFICES ASSUME NEW i \in Analyses', HasMade(q, i)'
               PROVE  hooks'[q][i] = HooksFrom(C[i], q, setting.analyses[i])'
    BY DEF RankHooks
  <2>1. i \in Analyses /\ HasMade(q, i) /\ C[i] = B[i]
    BY <1>1, <1>2
  <2>2. hooks[q][i] = HooksFrom(B[i], q, setting.analyses[i])
    BY <2>1 DEF RankInv, RankHooks
  <2>3. PICK a : a = setting.analyses[i]
    OBVIOUS
  <2>4. HooksFrom(C[i], q, a)' = HooksFrom(C[i], q, a)
    BY <1>0, StaysHooks
  <2>5. a = setting'.analyses[i]
    BY <1>0, <2>3
  <2> QED BY <1>0, <2>1, <2>2, <2>3, <2>4, <2>5
<1>9. RankFinds(C, q)'
  <2> SUFFICES ASSUME NEW i \in Analyses', NEW a, NEW fe, HasMade(q, i)', Works(i, a, fe)', NEW nm \in Created(q, fe)'
               PROVE  \E n \in Range(nodes'[q]) : NodeFor(C[i], a, fe, n, nm)'
    BY DEF RankFinds
  <2>1. i \in Analyses /\ HasMade(q, i) /\ C[i] = B[i] /\ Works(i, a, fe) /\ nm \in Created(q, fe) /\ nm[1] \in Blocks
    BY <1>1, <1>2, <1>3
  <2>2. PICK n \in Range(nodes[q]) : NodeFor(B[i], a, fe, n, nm)
    BY <2>1 DEF RankInv, RankFinds
  <2>3. NodeFor(C[i], a, fe, n, nm)'
    BY <1>6, <2>1, <2>2
  <2> QED BY <1>0, <2>2, <2>3
<1>10. RankKnows(C, q)'
  <2> SUFFICES ASSUME NEW n \in Range(nodes'[q])
               PROVE  \E i \in Analyses' : \E a, fe :
                        HasMade(q, i)' /\ Works(i, a, fe)' /\ \E nm \in Created(q, fe)' : NodeFor(C[i], a, fe, n, nm)'
    BY DEF RankKnows
  <2>1. PICK i \in Analyses : \E a, fe :
          HasMade(q, i) /\ Works(i, a, fe) /\ \E nm \in Created(q, fe) : NodeFor(B[i], a, fe, n, nm)
    BY <1>0 DEF RankInv, RankKnows
  <2>2. PICK a, fe : HasMade(q, i) /\ Works(i, a, fe) /\ \E nm \in Created(q, fe) : NodeFor(B[i], a, fe, n, nm)
    BY <2>1
  <2>3. PICK nm \in Created(q, fe) : NodeFor(B[i], a, fe, n, nm)
    BY <2>2
  <2>4. nm \in Created(q, fe)' /\ nm[1] \in Blocks /\ C[i] = B[i]
    BY <1>2, <1>3, <2>2
  <2>5. NodeFor(C[i], a, fe, n, nm)'
    BY <1>6, <2>3, <2>4
  <2>6. i \in Analyses' /\ HasMade(q, i)' /\ Works(i, a, fe)'
    BY <1>1, <1>2, <2>2
  <2> QED BY <2>4, <2>5, <2>6
<1>11. RankFluxes(C, q)'
  <2> SUFFICES ASSUME NEW i \in Analyses', NEW a, NEW fe, HasMade(q, i)', Works(i, a, fe)', NEW nm, FluxName(q, fe, nm)'
               PROVE  HasLoad(loads'[q], a, C[i] + IdOf(ShapeOf(fe), nm)')
    BY DEF RankFluxes
  <2>1. i \in Analyses /\ HasMade(q, i) /\ C[i] = B[i] /\ Works(i, a, fe) /\ FluxName(q, fe, nm)
    BY <1>1, <1>2, <1>4
  <2>2. nm[1] \in Blocks
    BY <2>1 DEF FluxName, Blocks
  <2>3. HasLoad(loads[q], a, B[i] + IdOf(ShapeOf(fe), nm))
    BY <2>1 DEF RankInv, RankFluxes
  <2> QED BY <1>0, <1>5, <2>1, <2>2, <2>3
<1> QED BY <1>7, <1>8, <1>9, <1>10, <1>11 DEF RankInv

LEMMA AnalysesAre ==
  ASSUME Partitioned
  PROVE  Len(setting.analyses) \in Nat /\ Analyses = 1..Len(setting.analyses) /\ 1 \in Analyses
<1>1. setting.analyses \in Seq(AnalysisTypes) /\ setting.analyses # << >>
  BY SettingsAssumption DEF Partitioned
<1>2. PICK s : s = setting.analyses
  OBVIOUS
<1>3. s \in Seq(AnalysisTypes) /\ s # << >>
  BY <1>1, <1>2
<1>4. Len(s) \in Nat /\ DOMAIN s = 1..Len(s) /\ Len(s) # 0
  BY <1>3
<1> QED BY <1>2, <1>4 DEF Analyses

LEMMA ModelIsSound ==
  ASSUME Partitioned, ModelsAreSound
  PROVE  /\ Sound /\ (Kind = "tria" => WellOriented(iomodel.mesh))
         /\ \A i \in Analyses : \A a, fe : Works(i, a, fe) => IsElementOf(fe, a) /\ AnalysisIs(a)
<1>1. setting \in Settings /\ iomodel.mesh = setting.mesh
  BY MeshIsKnown DEF Partitioned
<1>2. SoundModel(setting)
  BY <1>1 DEF ModelsAreSound
<1>3. Sound /\ (Kind = "tria" => WellOriented(iomodel.mesh))
  BY <1>1, <1>2 DEF SoundModel, Sound, Kind
<1>4. ASSUME NEW i \in Analyses, NEW a, NEW fe, Works(i, a, fe)
      PROVE  IsElementOf(fe, a) /\ AnalysisIs(a)
  <2>1. a = setting.analyses[i] /\ IsSolved(a) /\ fe = FiniteElement(a) /\ i \in DOMAIN setting.analyses
    BY <1>4 DEF Works, Analyses
  <2>2. TableFor(Kind, fe)
    BY <1>1, <1>2, <2>1 DEF SoundModel, Kind
  <2>3. AnalysisIs(a)
    BY <2>1, AnalysisFacts
  <2> QED BY <2>1, <2>2, <2>3 DEF IsElementOf, HasTable
<1> QED BY <1>3, <1>4

\* An analysis is at most at its own number.
LEMMA MadeUpTo ==
  ASSUME Partitioned, Ranked, NEW r \in Ranks, NEW i \in Analyses
  PROVE  /\ current[r] \in Analyses /\ current[r] \in Int /\ i \in Int /\ i >= 1
         /\ HasMade(r, i) => i <= current[r]
         /\ current[r] = 1 /\ pc[r] \notin {"counters", "done"} => ~HasMade(r, i)
<1>1. Analyses = 1..Len(setting.analyses) /\ Len(setting.analyses) \in Nat
  BY AnalysesAre
<1>2. current[r] \in Analyses
  BY DEF Ranked
<1>3. current[r] \in Int /\ i \in Int /\ i >= 1
  BY <1>1, <1>2
<1> QED BY <1>2, <1>3 DEF HasMade

-----------------------------------------------------------------------------
(* A rank finds its elements: it has made nothing yet.                     *)
LEMMA PartitionRank ==
  ASSUME NodesInv, NEW r \in Ranks, ElementsAndVerticesPartitioning(r), NEW B, RankInv(B, r)
  PROVE  RankInv(B, r)'
<1>0. Partitioned /\ Ranked /\ DOMAIN pc = Ranks
  BY DEF NodesInv, Ranked
<1>1. /\ pc[r] = "partition" /\ pc'[r] = "datasets" /\ current' = current /\ nodecounter' = nodecounter
      /\ nodes' = nodes /\ setting' = setting
  BY <1>0 DEF ElementsAndVerticesPartitioning
<1>2. current[r] = 1 /\ nodecounter[r] = B[current[r]]
  BY <1>1 DEF RankInv, RankAt
<1>3. \A i \in Analyses : ~HasMade(r, i)
  BY <1>0, <1>1, <1>2, MadeUpTo
<1>4. Analyses' = Analyses
  BY <1>1 DEF Analyses
<1>5. \A i \in Analyses : ~HasMade(r, i)'
  <2> SUFFICES ASSUME NEW i \in Analyses PROVE ~HasMade(r, i)'
    OBVIOUS
  <2>1. i \in Int /\ i >= 1
    BY <1>0, MadeUpTo
  <2> QED BY <1>1, <1>2, <2>1 DEF HasMade
<1>6. Range(nodes[r]) = {}
  BY <1>3 DEF RankInv, RankKnows
<1>7. RankAt(B, r)'
  BY <1>1, <1>2 DEF RankAt
<1>8. Rises(nodes[r])'
  BY <1>1 DEF RankInv, Rises
<1>9. RankHooks(B, r)'
  BY <1>4, <1>5 DEF RankHooks
<1>10. RankFinds(B, r)'
  BY <1>4, <1>5 DEF RankFinds
<1>11. RankKnows(B, r)'
  BY <1>1, <1>6 DEF RankKnows
<1>12. RankFluxes(B, r)'
  BY <1>4, <1>5 DEF RankFluxes
<1> QED BY <1>7, <1>8, <1>9, <1>10, <1>11, <1>12 DEF RankInv

-----------------------------------------------------------------------------
(* A rank creates what it needs for an analysis.                           *)
LEMMA FluxesAreLoads ==
  ASSUME NEW r, NEW a, AnalysisIs(a), FiniteElement(a) = "P1DG"
  PROVE  Numericalfluxes(r, a) \subseteq CreateLoads(r, a)
<1>1. a.fe # "P1DG"
  BY DEF AnalysisIs, ScalarElements, StokesElements
<1>2. a.name = "Masstransport" /\ a.stabilization = 3
  <2>1. a.name # "Stressbalance"
    BY <1>1 DEF FiniteElement
  <2>2. a.name = "Masstransport"
    BY <2>1 DEF FiniteElement
  <2> QED BY <2>2 DEF FiniteElement
<1>3. CreateLoads(r, a) = Numericalfluxes(r, a) \cup Penpairs(r, a, OnBed(Range(setting.pairing.masstransport)))
  BY <1>2 DEF CreateLoads
<1> QED BY <1>3

\* The step, seen from the rank that moves.
Creates(r, B, c, N, a, new) ==
  /\ c = current[r] /\ c \in Analyses /\ N = nodecounter[r] /\ N \in Nat /\ B[c] = N /\ a = setting.analyses[c]
  /\ new = CreateNodes(r, a) /\ Stays(r) /\ AnalysisIs(a)
  /\ current'[r] = c /\ nodecounter'[r] = N /\ pc'[r] = "counters"
  /\ nodes'[r] = nodes[r] \o new /\ loads'[r] = loads[r] \cup CreateLoads(r, a)
  /\ hooks'[r] = [hooks[r] EXCEPT ![c] = UpdateElements(r, a)]
  /\ \A i \in Analyses : HasMade(r, i)' <=> HasMade(r, i) \/ i = c
  /\ ~HasMade(r, c)
  /\ nodes[r] \in Seq(AnyNode) /\ new \in Seq(AnyNode)
  /\ \A n \in Range(nodes[r]) : n.id <= N
  /\ \A n \in Range(new) : N < n.id

LEMMA CreatesWhat ==
  ASSUME NodesInv, Dated, NEW r \in Ranks, CreateDatasets(r), NEW B, RankInv(B, r)
  PROVE  \E c, N, a, new : Creates(r, B, c, N, a, new)
<1>0. Partitioned /\ Ranked /\ InStep /\ NodesAreMade /\ DOMAIN pc = Ranks /\ DOMAIN nodes = Ranks
  BY DEF NodesInv, Ranked
<1> DEFINE c == current[r]
<1> DEFINE a == setting.analyses[current[r]]
<1> DEFINE new == CreateNodes(r, a)
<1>1. c \in Analyses /\ c \in Int /\ At(r) = a /\ AnalysisIs(a)
  BY <1>0, WorldOf, MadeUpTo DEF At
<1>2. /\ pc[r] = "datasets" /\ current' = current /\ nodecounter' = nodecounter
      /\ nodes' = [nodes EXCEPT ![r] = @ \o CreateNodes(r, a)]
      /\ loads' = [loads EXCEPT ![r] = @ \cup CreateLoads(r, a)]
      /\ hooks' = [hooks EXCEPT ![r][current[r]] = UpdateElements(r, a)]
      /\ pc' = [pc EXCEPT ![r] = "counters"]
      /\ setting' = setting /\ iomodel' = iomodel /\ my_elements' = my_elements /\ my_vertices' = my_vertices
  BY DEF CreateDatasets
<1>3. Stays(r)
  BY <1>2 DEF Stays
<1>4. nodecounter[r] \in Nat /\ B[c] = nodecounter[r]
  <2>1. nodecounter[r] \in Nat
    BY <1>0 DEF InStep, CounterIs
  <2> QED BY <1>2, <2>1 DEF RankInv, RankAt
<1>5. nodes'[r] = nodes[r] \o new
  BY <1>0, <1>2
<1>6. loads'[r] = loads[r] \cup CreateLoads(r, a)
  BY <1>2 DEF Dated
<1>7. hooks'[r] = [hooks[r] EXCEPT ![c] = UpdateElements(r, a)]
  BY <1>2 DEF Dated
<1>8. pc'[r] = "counters"
  BY <1>0, <1>2
<1>9. ~HasMade(r, c)
  BY <1>1, <1>2 DEF HasMade
<1>10. \A i \in Analyses : HasMade(r, i)' <=> HasMade(r, i) \/ i = c
  BY <1>2, <1>8 DEF HasMade
<1>11. nodes[r] \in Seq(AnyNode)
  BY <1>0 DEF Ranked
<1>12. new \in Seq(AnyNode) /\ \A n \in Range(new) : nodecounter[r] < n.id
  BY <1>0, <1>1, MadeNodesFacts
<1>13. \A n \in Range(nodes[r]) : n.id <= nodecounter[r]
  BY <1>0, <1>2, SMTT(30) DEF NodesAreMade, MadeNodes, OldNodes
<1> HIDE DEF new
<1>14. Creates(r, B, c, nodecounter[r], a, new)
  BY <1>1, <1>2, <1>3, <1>4, <1>5, <1>6, <1>7, <1>8, <1>9, <1>10, <1>11, <1>12, <1>13 DEF Creates, new
<1> QED BY <1>14

\* The analysis is solved, and has its nodes.
LEMMA NewNodesMade ==
  ASSUME NodesInv, ModelsAreSound, NEW r \in Ranks, NEW B, NEW c, NEW N, NEW a, NEW new, Creates(r, B, c, N, a, new)
  PROVE  /\ \A fe : Works(c, a, fe) => Makes(N, a, fe, new, Created(r, fe)) /\ Creating(r, N, a, fe)
         /\ Rises(new)
         /\ new # << >> => \E fe : Works(c, a, fe)
<1>0. /\ Partitioned /\ c \in Analyses /\ N = nodecounter[r] /\ N \in Nat /\ a = setting.analyses[c]
      /\ new = CreateNodes(r, a) /\ AnalysisIs(a)
  BY DEF NodesInv, Creates
<1>1. ASSUME NEW fe, Works(c, a, fe)
      PROVE  Creating(r, N, a, fe)
  <2>1. IsElementOf(fe, a)
    BY <1>0, <1>1, ModelIsSound
  <2> QED BY <1>0, <2>1 DEF Creating
<1>2. ASSUME NEW fe, Works(c, a, fe)
      PROVE  Makes(N, a, fe, new, Created(r, fe))
  <2>1. Creating(r, N, a, fe)
    BY <1>1, <1>2
  <2>2. Makes(N, a, fe, CreateNodes(r, a), Created(r, fe))
    BY <2>1, NodesAreNamed
  <2> QED BY <1>0, <2>2
<1>3. CASE IsSolved(a)
  <2>1. Works(c, a, FiniteElement(a))
    BY <1>0, <1>3 DEF Works
  <2>2. Rises(new)
    BY <1>2, <2>1 DEF Makes
  <2> QED BY <1>1, <1>2, <2>1, <2>2
<1>4. CASE ~IsSolved(a)
  <2>1. new = << >>
    BY <1>0, <1>4 DEF CreateNodes
  <2>2. Rises(<< >>)
    BY DEF Rises
  <2> QED BY <1>1, <1>2, <2>1, <2>2
<1> QED BY <1>3, <1>4

\* After the step, the rank's part of the invariant holds, one conjunct after the other.
LEMMA CreatedRises ==
  ASSUME NodesInv, ModelsAreSound, NEW r \in Ranks, NEW B, NEW c, NEW N, NEW a, NEW new, Creates(r, B, c, N, a, new),
         RankInv(B, r)
  PROVE  /\ Rises(nodes[r])'
         /\ Range(nodes'[r]) = Range(nodes[r]) \cup Range(new)
<1>1. /\ nodes'[r] = nodes[r] \o new /\ nodes[r] \in Seq(AnyNode) /\ new \in Seq(AnyNode) /\ N \in Nat
      /\ \A n \in Range(nodes[r]) : n.id <= N
      /\ \A n \in Range(new) : N < n.id
  BY DEF Creates
<1>2. Rises(new) /\ Rises(nodes[r])
  BY NewNodesMade DEF RankInv
<1>3. \A n \in Range(nodes[r]) : n.id \in Nat
  <2>1. Range(nodes[r]) \subseteq AnyNode
    BY <1>1 DEF Range
  <2> QED BY <2>1 DEF AnyNode
<1>4. \A n \in Range(new) : n.id \in Nat
  <2>1. Range(new) \subseteq AnyNode
    BY <1>1 DEF Range
  <2> QED BY <2>1 DEF AnyNode
<1>5. Below(nodes[r], new)
  BY <1>1, <1>3, <1>4 DEF Below
<1>6. Rises(nodes[r] \o new)
  BY <1>1, <1>2, <1>5, RisesJoin
<1>7. Rises(nodes[r])'
  BY <1>1, <1>6 DEF Rises
<1>8. Range(nodes[r] \o new) = Range(nodes[r]) \cup Range(new)
  BY <1>1, RangeOfConcat
<1> QED BY <1>1, <1>7, <1>8

LEMMA CreatedHooks ==
  ASSUME NEW r \in Ranks, NEW B, NEW c, NEW N, NEW a, NEW new, Creates(r, B, c, N, a, new),
         RankInv(B, r), Dated
  PROVE  RankHooks(B, r)'
<1>1. /\ c \in Analyses /\ N = nodecounter[r] /\ B[c] = N /\ a = setting.analyses[c] /\ Stays(r) /\ setting' = setting
      /\ hooks'[r] = [hooks[r] EXCEPT ![c] = UpdateElements(r, a)]
      /\ \A i \in Analyses : HasMade(r, i)' <=> HasMade(r, i) \/ i = c
  BY DEF Creates, Stays
<1>2. Analyses' = Analyses
  BY <1>1, StaysWork
<1>3. UpdateElements(r, a) = HooksFrom(N, r, a)
  BY <1>1 DEF UpdateElements, HooksFrom
<1>4. DOMAIN hooks[r] = Analyses
  BY DEF Dated
<1> SUFFICES ASSUME NEW i \in Analyses', HasMade(r, i)'
             PROVE  hooks'[r][i] = HooksFrom(B[i], r, setting.analyses[i])'
  BY DEF RankHooks
<1>5. PICK b : b = setting.analyses[i]
  OBVIOUS
<1>6. HooksFrom(B[i], r, b)' = HooksFrom(B[i], r, b)
  BY <1>1, StaysHooks
<1>7. b = setting'.analyses[i]
  BY <1>1, <1>5
<1>8. hooks'[r][i] = HooksFrom(B[i], r, b)
  <2>1. CASE i = c
    BY <1>1, <1>2, <1>3, <1>4, <1>5, <2>1
  <2>2. CASE i # c
    <3>1. hooks'[r][i] = hooks[r][i]
      BY <1>1, <1>2, <1>4, <2>2
    <3>2. HasMade(r, i) /\ i \in Analyses
      BY <1>1, <1>2, <2>2
    <3> QED BY <1>5, <3>1, <3>2 DEF RankInv, RankHooks
  <2> QED BY <2>1, <2>2
<1> QED BY <1>6, <1>7, <1>8

LEMMA CreatedFinds ==
  ASSUME NodesInv, ModelsAreSound, NEW r \in Ranks, NEW B, NEW c, NEW N, NEW a, NEW new, Creates(r, B, c, N, a, new),
         RankInv(B, r)
  PROVE  RankFinds(B, r)' /\ RankKnows(B, r)'
<1>1. /\ c \in Analyses /\ B[c] = N /\ a = setting.analyses[c] /\ Stays(r) /\ setting' = setting
      /\ \A i \in Analyses : HasMade(r, i)' <=> HasMade(r, i) \/ i = c
  BY DEF Creates, Stays
<1>2. Analyses' = Analyses /\ \A i : \A b, fe : Works(i, b, fe)' <=> Works(i, b, fe)
  BY <1>1, StaysWork
<1>3. \A fe : Created(r, fe)' = Created(r, fe) /\ \A nm \in Created(r, fe) : nm[1] \in Blocks
  BY <1>1, StaysCreated
<1>4. \A fe, nm : nm[1] \in Blocks => \A M, b, n : NodeFor(M, b, fe, n, nm)' <=> NodeFor(M, b, fe, n, nm)
  BY <1>1, StaysNames
<1>5. Range(nodes'[r]) = Range(nodes[r]) \cup Range(new)
  BY CreatedRises
<1>6. \A fe : Works(c, a, fe) => Makes(N, a, fe, new, Created(r, fe))
  BY NewNodesMade
<1>7. RankFinds(B, r)'
  <2> SUFFICES ASSUME NEW i \in Analyses', NEW b, NEW fe, HasMade(r, i)', Works(i, b, fe)', NEW nm \in Created(r, fe)'
               PROVE  \E n \in Range(nodes'[r]) : NodeFor(B[i], b, fe, n, nm)'
    BY DEF RankFinds
  <2>1. i \in Analyses /\ Works(i, b, fe) /\ nm \in Created(r, fe) /\ nm[1] \in Blocks
    BY <1>2, <1>3
  <2>2. CASE HasMade(r, i)
    <3>1. PICK n \in Range(nodes[r]) : NodeFor(B[i], b, fe, n, nm)
      BY <2>1, <2>2 DEF RankInv, RankFinds
    <3>2. NodeFor(B[i], b, fe, n, nm)'
      BY <1>4, <2>1, <3>1
    <3> QED BY <1>5, <3>1, <3>2
  <2>3. CASE i = c
    <3>1. b = a
      BY <1>1, <2>1, <2>3 DEF Works
    <3>2. Makes(N, a, fe, new, Created(r, fe))
      BY <1>6, <2>1, <2>3, <3>1
    <3>3. PICK n \in Range(new) : NodeFor(N, a, fe, n, nm)
      BY <2>1, <3>2 DEF Makes
    <3>4. NodeFor(B[i], b, fe, n, nm)'
      BY <1>1, <1>4, <2>1, <2>3, <3>1, <3>3
    <3> QED BY <1>5, <3>3, <3>4
  <2> QED BY <1>1, <2>1, <2>2, <2>3
<1>8. RankKnows(B, r)'
  <2> SUFFICES ASSUME NEW n \in Range(nodes'[r])
               PROVE  \E i \in Analyses' : \E b, fe :
                        HasMade(r, i)' /\ Works(i, b, fe)' /\ \E nm \in Created(r, fe)' : NodeFor(B[i], b, fe, n, nm)'
    BY DEF RankKnows
  <2>1. \E i \in Analyses : \E b, fe :
          (HasMade(r, i) \/ i = c) /\ Works(i, b, fe) /\ \E nm \in Created(r, fe) : NodeFor(B[i], b, fe, n, nm)
    <3>1. CASE n \in Range(nodes[r])
      BY <3>1 DEF RankInv, RankKnows
    <3>2. CASE n \in Range(new)
      <4>1. new # << >>
        BY <3>2 DEF Range
      <4>2. PICK fe : Works(c, a, fe)
        BY <4>1, NewNodesMade
      <4>3. \E nm \in Created(r, fe) : NodeFor(N, a, fe, n, nm)
        BY <1>6, <3>2, <4>2 DEF Makes
      <4> QED BY <1>1, <4>2, <4>3
    <3> QED BY <1>5, <3>1, <3>2
  <2>2. PICK i \in Analyses : \E b, fe :
          (HasMade(r, i) \/ i = c) /\ Works(i, b, fe) /\ \E nm \in Created(r, fe) : NodeFor(B[i], b, fe, n, nm)
    BY <2>1
  <2>3. PICK b, fe :
          (HasMade(r, i) \/ i = c) /\ Works(i, b, fe) /\ \E nm \in Created(r, fe) : NodeFor(B[i], b, fe, n, nm)
    BY <2>2
  <2>4. PICK nm \in Created(r, fe) : NodeFor(B[i], b, fe, n, nm)
    BY <2>3
  <2>5. nm \in Created(r, fe)' /\ NodeFor(B[i], b, fe, n, nm)'
    BY <1>3, <1>4, <2>4
  <2>6. i \in Analyses' /\ HasMade(r, i)' /\ Works(i, b, fe)'
    BY <1>1, <1>2, <2>3
  <2> QED BY <2>5, <2>6
<1> QED BY <1>7, <1>8

LEMMA CreatedFluxes ==
  ASSUME NodesInv, ModelsAreSound, NEW r \in Ranks, NEW B, NEW c, NEW N, NEW a, NEW new, Creates(r, B, c, N, a, new),
         RankInv(B, r), my_vertices[r] = MyVertices(my_elements[r])
  PROVE  RankFluxes(B, r)'
<1>1. /\ c \in Analyses /\ N = nodecounter[r] /\ N \in Nat /\ B[c] = N /\ a = setting.analyses[c] /\ Stays(r)
      /\ setting' = setting /\ AnalysisIs(a) /\ loads'[r] = loads[r] \cup CreateLoads(r, a)
      /\ \A i \in Analyses : HasMade(r, i)' <=> HasMade(r, i) \/ i = c
  BY DEF Creates, Stays
<1>2. Analyses' = Analyses /\ \A i : \A b, fe : Works(i, b, fe)' <=> Works(i, b, fe)
  BY <1>1, StaysWork
<1>3. \A fe, nm : FluxName(r, fe, nm)' <=> FluxName(r, fe, nm)
  BY <1>1, StaysCreated
<1>4. \A fe, nm : nm[1] \in Blocks => IdOf(ShapeOf(fe), nm)' = IdOf(ShapeOf(fe), nm)
  BY <1>1, StaysNames
<1> SUFFICES ASSUME NEW i \in Analyses', NEW b, NEW fe, HasMade(r, i)', Works(i, b, fe)', NEW nm, FluxName(r, fe, nm)'
             PROVE  HasLoad(loads'[r], b, B[i] + IdOf(ShapeOf(fe), nm)')
  BY DEF RankFluxes
<1>5. i \in Analyses /\ Works(i, b, fe) /\ FluxName(r, fe, nm)
  BY <1>2, <1>3
<1>6. IdOf(ShapeOf(fe), nm)' = IdOf(ShapeOf(fe), nm)
  BY <1>4, <1>5 DEF FluxName, Blocks
<1>7. CASE HasMade(r, i)
  <2>1. HasLoad(loads[r], b, B[i] + IdOf(ShapeOf(fe), nm))
    BY <1>5, <1>7 DEF RankInv, RankFluxes
  <2> QED BY <1>1, <1>6, <2>1 DEF HasLoad
<1>8. CASE i = c
  <2>1. b = a /\ fe = FiniteElement(a) /\ fe = "P1DG"
    BY <1>1, <1>5, <1>8 DEF Works, FluxName
  <2>2. Creating(r, N, a, fe)
    BY <1>5, <1>8, <2>1, NewNodesMade
  <2>3. Kind = "tria"
    BY <2>1, <2>2, ElementKinds
  <2>4. Sound /\ WellOriented(iomodel.mesh)
    BY <2>3, ModelIsSound DEF NodesInv
  <2>5. Marked(r)
    BY <2>4 DEF Marked
  <2>6. HasFlux(r, a, N + IdOf(ShapeOf("P1DG"), nm))
    BY <1>1, <1>5, <2>1, <2>3, <2>4, <2>5, FluxesResolve
  <2>7. Numericalfluxes(r, a) \subseteq loads'[r]
    BY <1>1, <2>1, FluxesAreLoads
  <2>8. HasLoad(loads'[r], a, N + IdOf(ShapeOf("P1DG"), nm))
    BY <2>6, <2>7 DEF HasFlux, HasLoad
  <2> QED BY <1>1, <1>6, <1>8, <2>1, <2>8
<1> QED BY <1>1, <1>5, <1>7, <1>8

LEMMA CreateRank ==
  ASSUME NodesInv, MarksInv, Dated, ModelsAreSound, NEW r \in Ranks, CreateDatasets(r), NEW B, RankInv(B, r)
  PROVE  RankInv(B, r)'
<1>1. PICK c, N, a, new : Creates(r, B, c, N, a, new)
  BY CreatesWhat
<1>2. my_vertices[r] = MyVertices(my_elements[r])
  BY DEF CreateDatasets, MarksInv
<1>3. RankAt(B, r)'
  BY <1>1 DEF Creates, RankAt
<1>4. Rises(nodes[r])'
  BY <1>1, CreatedRises
<1>5. RankHooks(B, r)'
  BY <1>1, CreatedHooks
<1>6. RankFinds(B, r)' /\ RankKnows(B, r)'
  BY <1>1, CreatedFinds
<1>7. RankFluxes(B, r)'
  BY <1>1, <1>2, CreatedFluxes
<1> QED BY <1>3, <1>4, <1>5, <1>6, <1>7 DEF RankInv

-----------------------------------------------------------------------------
(* The steps.                                                              *)
LEMMA InitHooks ==
  ASSUME Init
  PROVE  HooksInv
<1>1. Partitioned /\ Ranked
  BY InitNodes DEF NodesInv
<1> DEFINE B == [i \in Analyses |-> 0]
<1>2. /\ pc = [r \in Ranks |-> "partition"] /\ current = [r \in Ranks |-> 1] /\ nodes = [r \in Ranks |-> << >>]
      /\ hooks = [r \in Ranks |-> [i \in Analyses |-> [e \in Elements |-> << >>]]]
      /\ loads = [r \in Ranks |-> {}] /\ nodecounter = [r \in Ranks |-> 0]
  BY DEF Init
<1>3. Dated
  BY <1>2 DEF Dated
<1>4. 1 \in Analyses /\ Analyses = 1..Len(setting.analyses) /\ Len(setting.analyses) \in Nat
  BY <1>1, AnalysesAre
<1>5. B \in [Analyses -> Nat]
  OBVIOUS
<1>6. AnalysesApart(B)
  <2>1. \A i, j \in Analyses : \A r \in Ranks : ~(i < j /\ j <= current[r])
    BY <1>2, <1>4
  <2> HIDE DEF B
  <2> QED BY <2>1 DEF AnalysesApart
<1>7. ASSUME NEW r \in Ranks
      PROVE  RankInv(B, r)
  <2>1. current[r] = 1 /\ pc[r] = "partition" /\ nodes[r] = << >> /\ nodecounter[r] = 0
    BY <1>2
  <2>2. RankAt(B, r)
    BY <1>4, <2>1 DEF RankAt
  <2>3. \A i \in Analyses : ~HasMade(r, i)
    BY <1>1, <2>1, MadeUpTo
  <2>4. Range(nodes[r]) = {}
    BY <2>1 DEF Range
  <2> HIDE DEF B
  <2>5. RankHooks(B, r) /\ RankFinds(B, r) /\ RankFluxes(B, r)
    BY <2>3 DEF RankHooks, RankFinds, RankFluxes
  <2>6. RankKnows(B, r)
    BY <2>4 DEF RankKnows
  <2>7. Rises(nodes[r])
    BY <2>1 DEF Rises
  <2> QED BY <2>2, <2>5, <2>6, <2>7 DEF RankInv
<1> HIDE DEF B
<1>8. CountedFrom(B)
  BY <1>5, <1>6, <1>7 DEF CountedFrom
<1> QED BY <1>3, <1>8 DEF HooksInv

\* A rank from which the step takes nothing.
Rests(q) == /\ Stays(q) /\ nodes'[q] = nodes[q] /\ hooks'[q] = hooks[q] /\ loads'[q] = loads[q]
            /\ pc'[q] = pc[q] /\ current'[q] = current[q] /\ nodecounter'[q] = nodecounter[q]

LEMMA RestKeeps ==
  ASSUME NEW q, Rests(q), NEW B, RankInv(B, q)
  PROVE  RankInv(B, q)'
<1>1. RankAt(B, q)'
  BY DEF Rests, Stays, RankInv, RankAt
<1>2. \A i \in Analyses : HasMade(q, i)' <=> HasMade(q, i)
  BY DEF HasMade, Rests
<1>3. NothingNew(B, B, q)
  BY <1>2 DEF NothingNew, Rests
<1> QED BY <1>1, <1>3, NothingNewKeeps

LEMMA StillApart ==
  ASSUME NEW B, AnalysesApart(B), current' = current, setting' = setting, \A q \in Ranks : Stays(q)
  PROVE  AnalysesApart(B)'
<1>1. Analyses' = Analyses /\ \A i : \A a, fe : Works(i, a, fe)' <=> Works(i, a, fe)
  BY StaysWork
<1> SUFFICES ASSUME NEW r \in Ranks, NEW q \in Ranks, NEW i \in Analyses', NEW j \in Analyses', NEW a, NEW fe,
                    i < j, j <= current'[r], Works(i, a, fe)', NEW nm \in Created(q, fe)'
             PROVE  B[i] + IdOf(ShapeOf(fe), nm)' <= B[j]
  BY DEF AnalysesApart
<1>2. nm \in Created(q, fe) /\ nm[1] \in Blocks
  BY StaysCreated
<1>3. IdOf(ShapeOf(fe), nm)' = IdOf(ShapeOf(fe), nm)
  BY <1>2, StaysNames
<1>4. B[i] + IdOf(ShapeOf(fe), nm) <= B[j]
  BY <1>1, <1>2 DEF AnalysesApart
<1> QED BY <1>3, <1>4

LEMMA StepHooks ==
  ASSUME NodesInv, MarksInv, HooksInv, ModelsAreSound, NEW r \in Ranks, StepOf(r)
  PROVE  HooksInv'
<1>0. Partitioned /\ Ranked /\ InStep /\ Dated
  BY DEF NodesInv, HooksInv
<1>1. PICK B : CountedFrom(B)
  BY DEF HooksInv
<1>2. /\ setting' = setting /\ iomodel' = iomodel /\ current' = current /\ nodecounter' = nodecounter
      /\ \A q \in Ranks : q # r => Idle(q)
  BY <1>0, Movers
<1>3. /\ DOMAIN hooks' = Ranks /\ DOMAIN loads' = Ranks
      /\ \A q \in Ranks : DOMAIN hooks'[q] = DOMAIN hooks[q]
      /\ \A q \in Ranks : q # r => hooks'[q] = hooks[q] /\ loads'[q] = loads[q]
  <2>1. CASE ElementsAndVerticesPartitioning(r)
    BY <1>0, <2>1 DEF ElementsAndVerticesPartitioning, Dated
  <2>2. CASE CreateDatasets(r)
    BY <1>0, <2>2 DEF CreateDatasets, Dated
  <2> QED BY <2>1, <2>2 DEF StepOf
<1>4. Analyses' = Analyses
  BY <1>2 DEF Analyses
<1>5. Dated'
  BY <1>0, <1>3, <1>4 DEF Dated
<1>6. ASSUME NEW q \in Ranks
      PROVE  RankInv(B, q)'
  <2>0. RankInv(B, q)
    BY <1>1 DEF CountedFrom
  <2>1. CASE q # r
    <3>1. Rests(q)
      BY <1>2, <1>3, <2>1 DEF Rests, Stays, Idle, Kept
    <3> QED BY <2>0, <3>1, RestKeeps
  <2>2. CASE q = r /\ ElementsAndVerticesPartitioning(r)
    BY <2>0, <2>2, PartitionRank
  <2>3. CASE q = r /\ CreateDatasets(r)
    BY <1>0, <2>0, <2>3, CreateRank
  <2> QED BY <2>1, <2>2, <2>3 DEF StepOf
<1>7. AnalysesApart(B)'
  <2>0. AnalysesApart(B)
    BY <1>1 DEF CountedFrom
  <2>1. CASE CreateDatasets(r)
    <3>1. \A q \in Ranks : Stays(q)
      BY <2>1 DEF CreateDatasets, Stays
    <3> QED BY <1>2, <2>0, <3>1, StillApart
  <2>2. CASE ElementsAndVerticesPartitioning(r)
    <3>1. current[r] = 1
      <4>1. RankAt(B, r)
        BY <1>1 DEF CountedFrom, RankInv
      <4> QED BY <2>2, <4>1 DEF RankAt, ElementsAndVerticesPartitioning
    <3>2. \A q \in Ranks : current'[q] = 1
      BY <1>0, <1>2, <3>1 DEF InStep
    <3>3. Analyses = 1..Len(setting.analyses) /\ Len(setting.analyses) \in Nat
      BY <1>0, AnalysesAre
    <3>4. \A i, j \in Analyses' : \A q \in Ranks : ~(i < j /\ j <= current'[q])
      BY <1>4, <3>2, <3>3
    <3> QED BY <3>4 DEF AnalysesApart
  <2> QED BY <2>1, <2>2 DEF StepOf
<1>8. CountedFrom(B)'
  BY <1>1, <1>4, <1>6, <1>7 DEF CountedFrom
<1> QED BY <1>5, <1>8 DEF HooksInv

-----------------------------------------------------------------------------
(* The counters move on: the next analysis counts from the largest id.     *)
\* What the step does.
Turns(n, M) ==
  /\ n \in Analyses /\ M \in Nat /\ \A r \in Ranks : current[r] = n /\ nodecounter'[r] = M
  /\ \A q \in Ranks : Stays(q) /\ pc[q] = "counters"
  /\ nodes' = nodes /\ hooks' = hooks /\ loads' = loads /\ setting' = setting
  /\ \A r \in Ranks : \A m \in Range(nodes[r]) : m.id <= M
LEMMA TurnsSo ==
  ASSUME NodesInv, UpdateCounters, Ranks # {}
  PROVE  \E n, M : /\ Turns(n, M)
                   /\ \/ n + 1 \in Analyses /\ \A r \in Ranks : current'[r] = n + 1 /\ pc'[r] = "datasets"
                      \/ n = Len(setting.analyses) /\ \A r \in Ranks : current'[r] = n /\ pc'[r] = "done"
<1>1. PICK r0 \in Ranks : TRUE
  OBVIOUS
<1>2. Ranked /\ InStep /\ Partitioned
  BY DEF NodesInv
<1>3. PICK M \in Nat : CounterIs(M)'
  BY <1>2, CounterMoves
<1>4. \A r \in Ranks : \A m \in Range(nodes[r]) : m.id <= nodecounter'[r]
  BY <1>2, CounterMoves
<1>5. \A r \in Ranks : nodecounter'[r] = M
  BY <1>3 DEF CounterIs
<1> DEFINE n == current[r0]
<1>6. n \in Analyses /\ \A r \in Ranks : current[r] = n
  BY <1>1, <1>2 DEF Ranked, InStep
<1>7. /\ setting' = setting /\ iomodel' = iomodel /\ my_elements' = my_elements
      /\ my_vertices' = my_vertices /\ nodes' = nodes /\ hooks' = hooks /\ loads' = loads
      /\ \A r \in Ranks : pc[r] = "counters"
  BY DEF UpdateCounters
<1>8. Turns(n, M)
  <2> HIDE DEF n
  <2> QED BY <1>3, <1>4, <1>5, <1>6, <1>7 DEF Turns, Stays
<1>9. Analyses = 1..Len(setting.analyses) /\ Len(setting.analyses) \in Nat
  BY <1>2, AnalysesAre
<1>10. CASE \A r \in Ranks : current[r] < Len(setting.analyses)
  <2>1. current' = [r \in Ranks |-> current[r] + 1] /\ pc' = [r \in Ranks |-> "datasets"]
    BY <1>10 DEF UpdateCounters
  <2>2. n + 1 \in Analyses
    BY <1>1, <1>6, <1>9, <1>10
  <2>3. \A r \in Ranks : current'[r] = n + 1 /\ pc'[r] = "datasets"
    BY <1>6, <2>1
  <2> HIDE DEF n
  <2> QED BY <1>8, <2>2, <2>3
<1>11. CASE ~ \A r \in Ranks : current[r] < Len(setting.analyses)
  <2>1. current' = current /\ pc' = [r \in Ranks |-> "done"]
    BY <1>11 DEF UpdateCounters
  <2>2. n = Len(setting.analyses)
    BY <1>6, <1>9, <1>11
  <2>3. \A r \in Ranks : current'[r] = n /\ pc'[r] = "done"
    BY <1>6, <2>1
  <2> HIDE DEF n
  <2> QED BY <1>8, <2>2, <2>3
<1> QED BY <1>10, <1>11

\* The analyses that are behind a rank are still there.
LEMMA TurnMade ==
  ASSUME Partitioned, NEW n, NEW M, Turns(n, M), NEW q \in Ranks, NEW i \in Analyses
  PROVE  /\ HasMade(q, i) <=> i <= n
         /\ current'[q] = n + 1 /\ pc'[q] = "datasets" => (HasMade(q, i)' <=> i <= n)
         /\ current'[q] = n /\ pc'[q] = "done" => (HasMade(q, i)' <=> i <= n)
<1>1. n \in Int /\ i \in Int
  BY AnalysesAre DEF Turns
<1>2. current[q] = n /\ pc[q] = "counters"
  BY DEF Turns
<1> QED BY <1>1, <1>2 DEF HasMade

LEMMA TurnApart ==
  ASSUME Partitioned, NEW n, NEW M, Turns(n, M), n + 1 \in Analyses, \A r \in Ranks : current'[r] = n + 1,
         NEW B, CountedFrom(B), NEW C, C = [B EXCEPT ![n + 1] = M]
  PROVE  AnalysesApart(C)'
<1>1. B \in [Analyses -> Nat] /\ AnalysesApart(B) /\ \A r \in Ranks : RankInv(B, r)
  BY DEF CountedFrom
<1>2. Analyses = 1..Len(setting.analyses) /\ Len(setting.analyses) \in Nat /\ n \in Analyses
  BY AnalysesAre DEF Turns
<1>3. setting' = setting /\ \A q \in Ranks : Stays(q)
  BY DEF Turns
<1>4. Analyses' = Analyses /\ \A i : \A a, fe : Works(i, a, fe)' <=> Works(i, a, fe)
  BY <1>3, StaysWork
<1> SUFFICES ASSUME NEW r \in Ranks, NEW q \in Ranks, NEW i \in Analyses', NEW j \in Analyses', NEW a, NEW fe,
                    i < j, j <= current'[r], Works(i, a, fe)', NEW nm \in Created(q, fe)'
             PROVE  C[i] + IdOf(ShapeOf(fe), nm)' <= C[j]
  BY DEF AnalysesApart
<1>5. i \in Analyses /\ j \in Analyses /\ Works(i, a, fe) /\ i \in Int /\ j \in Int /\ n \in Int
  BY <1>2, <1>4
<1>6. nm \in Created(q, fe) /\ nm[1] \in Blocks
  BY <1>3, StaysCreated
<1>7. IdOf(ShapeOf(fe), nm)' = IdOf(ShapeOf(fe), nm)
  BY <1>3, <1>6, StaysNames
<1>8. j <= n + 1 /\ i <= n
  BY <1>5
<1>9. C[i] = B[i]
  BY <1>1, <1>5, <1>8
<1>10. CASE j <= n
  <2>1. C[j] = B[j]
    BY <1>1, <1>5, <1>10
  <2>2. j <= current[r]
    BY <1>10 DEF Turns
  <2>3. B[i] + IdOf(ShapeOf(fe), nm) <= B[j]
    BY <1>1, <1>5, <1>6, <2>2 DEF AnalysesApart
  <2> QED BY <1>7, <1>9, <2>1, <2>3
<1>11. CASE j = n + 1
  <2>1. C[j] = M
    BY <1>1, <1>5, <1>11
  <2>2. HasMade(q, i)
    BY <1>5, <1>8, TurnMade
  <2>3. RankFinds(B, q)
    BY <1>1 DEF RankInv
  <2>4. PICK m \in Range(nodes[q]) : NodeFor(B[i], a, fe, m, nm)
    BY <1>5, <1>6, <2>2, <2>3 DEF RankFinds
  <2>5. m.id = B[i] + IdOf(ShapeOf(fe), nm)
    BY <2>4 DEF NodeFor
  <2>6. m.id <= M
    BY DEF Turns
  <2> QED BY <1>7, <1>9, <2>1, <2>5, <2>6
<1> QED BY <1>5, <1>8, <1>10, <1>11

LEMMA TurnHooks ==
  ASSUME NodesInv, HooksInv, UpdateCounters
  PROVE  HooksInv'
<1>0. Partitioned /\ Dated
  BY DEF NodesInv, HooksInv
<1>1. PICK B : CountedFrom(B)
  BY DEF HooksInv
<1>2. B \in [Analyses -> Nat] /\ AnalysesApart(B) /\ \A r \in Ranks : RankInv(B, r)
  BY <1>1 DEF CountedFrom
<1>3. setting' = setting /\ hooks' = hooks /\ loads' = loads
  BY DEF UpdateCounters
<1>4. Analyses' = Analyses
  BY <1>3 DEF Analyses
<1>5. Dated'
  BY <1>0, <1>3, <1>4 DEF Dated
<1>6. CASE Ranks = {}
  <2>1. AnalysesApart(B)' /\ \A r \in Ranks : RankInv(B, r)'
    BY <1>6 DEF AnalysesApart
  <2>2. CountedFrom(B)'
    BY <1>2, <1>4, <2>1 DEF CountedFrom
  <2> QED BY <1>5, <2>2 DEF HooksInv
<1>7. CASE Ranks # {}
  <2>1. PICK n, M : /\ Turns(n, M)
                    /\ \/ n + 1 \in Analyses /\ \A r \in Ranks : current'[r] = n + 1 /\ pc'[r] = "datasets"
                       \/ n = Len(setting.analyses) /\ \A r \in Ranks : current'[r] = n /\ pc'[r] = "done"
    BY <1>7, TurnsSo
  <2>2. /\ \A q \in Ranks : Stays(q) /\ nodes'[q] = nodes[q] /\ hooks'[q] = hooks[q] /\ loads'[q] = loads[q]
        /\ M \in Nat /\ \A q \in Ranks : nodecounter'[q] = M
    BY <2>1 DEF Turns
  <2>3. Analyses = 1..Len(setting.analyses) /\ Len(setting.analyses) \in Nat /\ n \in Analyses
    BY <1>0, <2>1, AnalysesAre DEF Turns
  <2>4. CASE n + 1 \in Analyses /\ \A r \in Ranks : current'[r] = n + 1 /\ pc'[r] = "datasets"
    <3> DEFINE C == [B EXCEPT ![n + 1] = M]
    <3>1. C \in [Analyses -> Nat]
      BY <1>2, <2>2
    <3>2. AnalysesApart(C)'
      BY <1>0, <1>1, <2>1, <2>4, TurnApart
    <3>3. ASSUME NEW q \in Ranks
          PROVE  RankInv(C, q)'
      <4>1. RankAt(C, q)'
        <5>1. C[n + 1] = M
          BY <1>2, <2>4
        <5> HIDE DEF C
        <5> QED BY <2>2, <2>4, <5>1 DEF RankAt
      <4>2. ASSUME NEW i \in Analyses
            PROVE  (HasMade(q, i)' <=> HasMade(q, i)) /\ (HasMade(q, i) => C[i] = B[i])
        <5>1. HasMade(q, i) <=> i <= n
          BY <1>0, <2>1, TurnMade
        <5>2. HasMade(q, i)' <=> i <= n
          BY <1>0, <2>1, <2>4, TurnMade
        <5>3. i <= n => C[i] = B[i]
          BY <1>2, <2>3
        <5> HIDE DEF C
        <5> QED BY <5>1, <5>2, <5>3
      <4> HIDE DEF C
      <4>3. NothingNew(B, C, q)
        BY <2>2, <4>2 DEF NothingNew
      <4> QED BY <1>2, <4>1, <4>3, NothingNewKeeps
    <3> HIDE DEF C
    <3>4. CountedFrom(C)'
      BY <1>4, <3>1, <3>2, <3>3 DEF CountedFrom
    <3> QED BY <1>5, <3>4 DEF HooksInv
  <2>5. CASE n = Len(setting.analyses) /\ \A r \in Ranks : current'[r] = n /\ pc'[r] = "done"
    <3>1. \A q \in Ranks : current'[q] = current[q]
      BY <2>1, <2>5 DEF Turns
    <3>2. AnalysesApart(B)'
      <4>1. ASSUME NEW r \in Ranks, NEW q \in Ranks, NEW i \in Analyses', NEW j \in Analyses', NEW a, NEW fe,
                   i < j, j <= current'[r], Works(i, a, fe)', NEW nm \in Created(q, fe)'
            PROVE  B[i] + IdOf(ShapeOf(fe), nm)' <= B[j]
        <5>1. Works(i, a, fe) /\ i \in Analyses /\ j \in Analyses /\ j <= current[r]
          BY <1>3, <1>4, <3>1, <4>1, StaysWork
        <5>2. nm \in Created(q, fe) /\ nm[1] \in Blocks
          BY <2>2, StaysCreated
        <5>3. IdOf(ShapeOf(fe), nm)' = IdOf(ShapeOf(fe), nm)
          BY <2>2, <5>2, StaysNames
        <5>4. B[i] + IdOf(ShapeOf(fe), nm) <= B[j]
          BY <1>2, <4>1, <5>1, <5>2 DEF AnalysesApart
        <5> QED BY <5>3, <5>4
      <4> QED BY <4>1 DEF AnalysesApart
    <3>3. ASSUME NEW q \in Ranks
          PROVE  RankInv(B, q)'
      <4>1. RankAt(B, q)'
        BY <1>3, <2>5 DEF RankAt
      <4>2. ASSUME NEW i \in Analyses
            PROVE  HasMade(q, i)' <=> HasMade(q, i)
        <5>1. HasMade(q, i) <=> i <= n
          BY <1>0, <2>1, TurnMade
        <5>2. HasMade(q, i)' <=> i <= n
          BY <1>0, <2>1, <2>5, TurnMade
        <5> QED BY <5>1, <5>2
      <4>3. NothingNew(B, B, q)
        BY <2>2, <4>2 DEF NothingNew
      <4> QED BY <1>2, <4>1, <4>3, NothingNewKeeps
    <3>4. CountedFrom(B)'
      BY <1>2, <1>4, <3>2, <3>3 DEF CountedFrom
    <3> QED BY <1>5, <3>4 DEF HooksInv
  <2> QED BY <2>1, <2>4, <2>5
<1> QED BY <1>6, <1>7

LEMMA NextHooks ==
  ASSUME NodesInv, MarksInv, HooksInv, ModelsAreSound, [Next]_vars
  PROVE  HooksInv'
<1>1. CASE \E r \in Ranks : StepOf(r)
  BY <1>1, StepHooks
<1>2. CASE UpdateCounters
  BY <1>2, TurnHooks
<1>3. CASE UNCHANGED vars
  <2>1. /\ setting' = setting /\ iomodel' = iomodel /\ pc' = pc /\ current' = current /\ my_elements' = my_elements
        /\ my_vertices' = my_vertices /\ nodes' = nodes /\ hooks' = hooks /\ loads' = loads /\ nodecounter' = nodecounter
    BY <1>3 DEF vars
  <2>2. \A q \in Ranks : Rests(q) /\ Stays(q)
    BY <2>1 DEF Rests, Stays
  <2>3. PICK B : CountedFrom(B)
    BY DEF HooksInv
  <2>4. B \in [Analyses -> Nat] /\ AnalysesApart(B) /\ \A r \in Ranks : RankInv(B, r)
    BY <2>3 DEF CountedFrom
  <2>5. Analyses' = Analyses
    BY <2>1 DEF Analyses
  <2>6. AnalysesApart(B)'
    BY <2>1, <2>2, <2>4, StillApart
  <2>7. ASSUME NEW q \in Ranks
        PROVE  RankInv(B, q)'
    BY <2>2, <2>4, RestKeeps
  <2>8. CountedFrom(B)'
    BY <2>4, <2>5, <2>6, <2>7 DEF CountedFrom
  <2>9. Dated'
    BY <2>1, <2>5 DEF HooksInv, Dated
  <2> QED BY <2>8, <2>9 DEF HooksInv
<1> QED BY <1>1, <1>2, <1>3 DEF Next, Solve, StepOf

-----------------------------------------------------------------------------
(***************************************************************************)
(* When all the ranks are done.                                            *)
(***************************************************************************)
\* Two names at one place are the same.
LEMMA PlacesApart ==
  ASSUME Sound, NEW fe, NEW e \in 1..Nel, NEW f \in 1..Nel, NEW nm, Has(ShapeOf(fe), e, nm),
         NEW mm, Has(ShapeOf(fe), f, mm), PlaceIs(fe, nm) = PlaceIs(fe, mm)
  PROVE  nm = mm
<1> DEFINE sh == ShapeOf(fe)
<1>1. GoodShape(sh) /\ Velocity(sh, VelocityInterpolation(fe)) /\ sh.press = PressOf(fe)
  BY ShapeIsGood
<1>2. /\ FieldOf(fe, nm) = FieldOf(fe, mm) /\ PointOf(sh, nm) = PointOf(sh, mm) /\ OwnOf(sh, nm) = OwnOf(sh, mm)
  BY DEF PlaceIs
<1> HIDE DEF sh
<1>3. Has(sh, e, nm) /\ Has(sh, f, mm)
  BY DEF sh
<1>4. (VelocityName(sh, e, nm) <=> nm[1] # 5) /\ (VelocityName(sh, f, mm) <=> mm[1] # 5)
  BY <1>1, <1>3, HasIsName
<1>5. CASE VelocityName(sh, e, nm) /\ VelocityName(sh, f, mm)
  BY <1>1, <1>2, <1>5, PointsApart
<1>6. CASE PressureName(sh, e, nm) /\ PressureName(sh, f, mm)
  BY <1>1, <1>2, <1>6, PressuresApart
<1>7. (nm[1] = 5) <=> (mm[1] = 5)
  <2>1. CASE fe \in StokesElements
    BY <1>2, <2>1 DEF FieldOf
  <2>2. CASE fe = "P1DG"
    <3>1. VelocityInterpolation(fe) = "P1DG"
      BY <2>2 DEF VelocityInterpolation
    <3>2. sh.corner = 0 /\ sh.up = 0 /\ sh.level = 0 /\ sh.quad = 0 /\ sh.bubble = 0
      BY <1>1, <3>1 DEF Velocity, Corner, UpOf, LevelOf, QuadOf, BubbleOf
    <3>3. \A k : CopiesOn(sh, k) = 0
      BY <3>2 DEF CopiesOn
    <3>4. \A g, x : ~VelocityName(sh, g, x)
      BY <3>2, <3>3 DEF VelocityName, CornerName, EdgeName, QuadName, BubbleName
    <3> QED BY <1>4, <3>4
  <2>3. CASE fe \notin StokesElements /\ fe # "P1DG"
    <3>1. PressOf(fe) = "none"
      BY <2>3 DEF PressOf, StokesElements
    <3>2. \A g, x : ~PressureName(sh, g, x)
      BY <1>1, <3>1 DEF PressureName
    <3> QED BY <1>3, <1>4, <3>2 DEF Has
  <2> QED BY <2>1, <2>2, <2>3
<1> QED BY <1>3, <1>4, <1>5, <1>6, <1>7 DEF Has

\* Where a place is all in one vertex, the name is that of a node of this vertex.
LEMMA PlaceAtVertex ==
  ASSUME Sound, NEW fe, NEW e \in 1..Nel, NEW nm, Has(ShapeOf(fe), e, nm),
         NEW x \in PointOf(ShapeOf(fe), nm), x[2] = 24
  PROVE  nm[1] \in {1, 5} /\ x[1] = VertexOf(fe, nm)
<1> DEFINE sh == ShapeOf(fe)
<1>1. GoodShape(sh) /\ sh.press = PressOf(fe)
  BY ShapeIsGood
<1> HIDE DEF sh
<1>2. Has(sh, e, nm) /\ x \in PointOf(sh, nm)
  BY DEF sh
<1>3. VelocityName(sh, e, nm) <=> nm[1] # 5
  BY <1>1, <1>2, HasIsName
<1>4. 24 \in WeightsOf(PointOf(sh, nm))
  BY <1>2 DEF WeightsOf
<1>5. CASE nm[1] = 5
  <2>1. x \in AtCorner(IF sh.press = "own" THEN Place(nm[2], nm[3]) ELSE nm[2])
    BY <1>2, <1>5 DEF PointOf
  <2> QED BY <1>1, <1>5, <2>1 DEF AtCorner, VertexOf
<1>6. CASE nm[1] # 5
  <2>1. /\ nm[1] \in 1..4
        /\ nm[1] = 2 => WeightsOf(PointOf(sh, nm)) \subseteq Weights
        /\ nm[1] = 3 => WeightsOf(PointOf(sh, nm)) \subseteq {3, 6, 9}
        /\ nm[1] = 4 => WeightsOf(PointOf(sh, nm)) = {24 \div Nc}
    BY <1>1, <1>3, <1>6, PointKinds
  <2>2. nm[1] # 2
    BY <1>4, <2>1 DEF Weights
  <2>3. nm[1] # 3
    BY <1>4, <2>1
  <2>4. nm[1] # 4
    <3>1. Nc \in {3, 4, 6}
      BY ElementIs DEF Sound
    <3>2. 24 \div Nc # 24
      BY <3>1
    <3> QED BY <1>4, <2>1, <3>2
  <2>5. nm[1] = 1
    BY <2>1, <2>2, <2>3, <2>4
  <2>6. x \in AtCorner(nm[2])
    BY <1>2, <2>5 DEF PointOf
  <2> QED BY <2>5, <2>6 DEF AtCorner, VertexOf
<1> QED BY <1>5, <1>6

AtTheEnd(B) == NodesInv /\ MarksInv /\ ModelsAreSound /\ Dated /\ CountedFrom(B) /\ Done
LEMMA EndFacts ==
  ASSUME NEW B, AtTheEnd(B), NEW r \in Ranks
  PROVE  /\ Sound /\ Partitioned /\ Marked(r) /\ RankInv(B, r)
         /\ current[r] = Len(setting.analyses)
         /\ \A i \in Analyses : /\ HasMade(r, i) /\ B[i] \in Nat /\ i \in Int /\ i <= current[r]
                                /\ hooks[r][i] = HooksFrom(B[i], r, setting.analyses[i])
         /\ my_elements[r] \subseteq 1..Nel
<1>1. Partitioned /\ Ranked
  BY DEF AtTheEnd, NodesInv
<1>2. Sound
  BY <1>1, ModelIsSound DEF AtTheEnd
<1>3. pc[r] = "done"
  BY DEF AtTheEnd, Done
<1>4. Marked(r)
  BY <1>2, <1>3 DEF Marked, AtTheEnd, MarksInv
<1>5. RankInv(B, r) /\ B \in [Analyses -> Nat]
  BY DEF AtTheEnd, CountedFrom
<1>6. current[r] = Len(setting.analyses)
  BY <1>3, <1>5 DEF RankInv, RankAt
<1>7. Analyses = 1..Len(setting.analyses) /\ Len(setting.analyses) \in Nat
  BY <1>1, AnalysesAre
<1>8. \A i \in Analyses : HasMade(r, i) /\ i \in Int /\ i <= current[r]
  BY <1>3, <1>6, <1>7 DEF HasMade
<1>9. \A i \in Analyses : hooks[r][i] = HooksFrom(B[i], r, setting.analyses[i])
  BY <1>5, <1>8 DEF RankInv, RankHooks
<1>10. my_elements[r] \subseteq 1..Nel
  BY <1>1, IoFacts DEF Partitioned
<1> QED BY <1>1, <1>2, <1>4, <1>5, <1>6, <1>8, <1>9, <1>10

\* An element sees its names.
Views(B, r, i, fe, e, n, w) ==
  /\ n \in Nat /\ hooks[r][i][e] = [k \in 1..n |-> B[i] + IdOf(ShapeOf(fe), w[k])]
  /\ NodePlaces(iomodel, fe, e) = [k \in 1..n |-> PlaceIs(fe, w[k])]
  /\ \A k \in 1..n : Has(ShapeOf(fe), e, w[k])
  /\ \A nm : Has(ShapeOf(fe), e, nm) => \E k \in 1..n : w[k] = nm
LEMMA EndShows ==
  ASSUME NEW B, AtTheEnd(B), NEW r \in Ranks, NEW i \in Analyses, NEW a, NEW fe, Works(i, a, fe),
         NEW e \in my_elements[r]
  PROVE  \E n, w : Views(B, r, i, fe, e, n, w)
<1>1. Sound /\ Partitioned /\ e \in 1..Nel /\ hooks[r][i] = HooksFrom(B[i], r, setting.analyses[i])
  BY EndFacts
<1>2. IsElementOf(fe, a)
  BY <1>1, ModelIsSound DEF AtTheEnd
<1>3. HasTable(fe) /\ IsSolved(a) /\ fe = FiniteElement(a) /\ a = setting.analyses[i]
  BY <1>2 DEF IsElementOf, Works
<1>4. ElementShows(fe, e)
  BY <1>1, <1>3, ElementsShow
<1>5. PICK S : /\ Shows(fe, e, NodeIds(iomodel, fe, e), NodePlaces(iomodel, fe, e), S)
               /\ \A nm : nm \in S <=> Has(ShapeOf(fe), e, nm)
  BY <1>4 DEF ElementShows
<1>6. PICK n \in Nat : \E w : ShowsAs(fe, e, NodeIds(iomodel, fe, e), NodePlaces(iomodel, fe, e), S, n, w)
  BY <1>5 DEF Shows
<1>7. PICK w : ShowsAs(fe, e, NodeIds(iomodel, fe, e), NodePlaces(iomodel, fe, e), S, n, w)
  BY <1>6
<1> DEFINE ids == NodeIds(iomodel, fe, e)
<1>8. /\ w \in [1..n -> S] /\ ids = [k \in 1..n |-> IdOf(ShapeOf(fe), w[k])]
      /\ NodePlaces(iomodel, fe, e) = [k \in 1..n |-> PlaceIs(fe, w[k])]
      /\ \A nm \in S : \E k \in 1..n : w[k] = nm
  BY <1>7 DEF ShowsAs
<1>9. hooks[r][i][e] = [k \in DOMAIN ids |-> B[i] + ids[k]]
  <2>1. e \in Elements
    BY <1>1, IoFacts
  <2> QED BY <1>1, <1>3, <2>1 DEF HooksFrom
<1> HIDE DEF ids
<1>10. DOMAIN ids = 1..n
  BY <1>8
<1>11. hooks[r][i][e] = [k \in 1..n |-> B[i] + IdOf(ShapeOf(fe), w[k])]
  BY <1>8, <1>9, <1>10
<1>12. \A k \in 1..n : Has(ShapeOf(fe), e, w[k])
  BY <1>5, <1>8
<1>13. \A nm : Has(ShapeOf(fe), e, nm) => \E k \in 1..n : w[k] = nm
  BY <1>5, <1>8
<1>14. Views(B, r, i, fe, e, n, w)
  BY <1>6, <1>8, <1>11, <1>12, <1>13 DEF Views
<1> QED BY <1>14

LEMMA EndCreated ==
  ASSUME NEW B, AtTheEnd(B), NEW r \in Ranks, NEW i \in Analyses, NEW a, NEW fe, Works(i, a, fe),
         NEW e \in my_elements[r], NEW nm, Has(ShapeOf(fe), e, nm)
  PROVE  /\ nm \in Created(r, fe) /\ IdOf(ShapeOf(fe), nm) \in Int /\ IdOf(ShapeOf(fe), nm) > 0
         /\ \E n \in Range(nodes[r]) : NodeFor(B[i], a, fe, n, nm)
<1>1. Sound /\ Partitioned /\ Marked(r) /\ HasMade(r, i) /\ RankInv(B, r)
  BY EndFacts
<1>2. IsElementOf(fe, a) /\ AnalysisIs(a)
  BY <1>1, ModelIsSound DEF AtTheEnd
<1>3. fe = "P1DG" => Kind = "tria"
  <2>1. HasTable(fe)
    BY <1>2 DEF IsElementOf
  <2>2. Kind \in {"tria", "tetra", "penta"}
    BY <1>1, KindIs
  <2> QED BY <2>1, <2>2 DEF HasTable, TableFor, ScalarElements, StokesElements
<1>4. nm \in Created(r, fe)
  BY <1>1, <1>3, OwnAreCreated
<1>5. IdOf(ShapeOf(fe), nm) \in Int /\ IdOf(ShapeOf(fe), nm) > 0
  BY <1>1, <1>4, CreatedHaveIds
<1>6. \E n \in Range(nodes[r]) : NodeFor(B[i], a, fe, n, nm)
  BY <1>1, <1>4 DEF RankInv, RankFinds
<1> QED BY <1>4, <1>5, <1>6

\* Each element finds its nodes.
Finds(r, i, e) ==
  LET a == setting.analyses[i]
      places == NodePlaces(iomodel, FiniteElement(a), e)
  IN  IsSolved(a) =>
        /\ Len(hooks[r][i][e]) = Len(places)
        /\ \A k \in DOMAIN places :
             \E n \in Range(nodes[r]) :
               /\ n.id = hooks[r][i][e][k] /\ n.analysis = a.name
               /\ places[k].field \in {"any", n.approximation}
               /\ \A w \in places[k].point : w[2] = 24 => n.vertex = w[1]
LEMMA EndFinds ==
  ASSUME NEW B, AtTheEnd(B), NEW r \in Ranks, NEW i \in Analyses, NEW e \in my_elements[r]
  PROVE  Finds(r, i, e)
<1> DEFINE a == setting.analyses[i]
           fe == FiniteElement(a)
           places == NodePlaces(iomodel, fe, e)
<1> SUFFICES ASSUME IsSolved(a)
             PROVE  /\ Len(hooks[r][i][e]) = Len(places)
                    /\ \A k \in DOMAIN places :
                         \E n \in Range(nodes[r]) :
                           /\ n.id = hooks[r][i][e][k] /\ n.analysis = a.name
                           /\ places[k].field \in {"any", n.approximation}
                           /\ \A w \in places[k].point : w[2] = 24 => n.vertex = w[1]
  BY DEF Finds
<1>1. Works(i, a, fe)
  BY DEF Works
<1>2. Sound /\ e \in 1..Nel
  BY EndFacts
<1> HIDE DEF a, fe
<1>3. PICK n, w : Views(B, r, i, fe, e, n, w)
  BY <1>1, EndShows
<1>4. /\ n \in Nat /\ hooks[r][i][e] = [k \in 1..n |-> B[i] + IdOf(ShapeOf(fe), w[k])]
      /\ places = [k \in 1..n |-> PlaceIs(fe, w[k])]
      /\ \A k \in 1..n : Has(ShapeOf(fe), e, w[k])
  BY <1>3 DEF Views
<1>5. Len(hooks[r][i][e]) = n /\ Len(places) = n /\ DOMAIN places = 1..n
  BY <1>4
<1>6. ASSUME NEW k \in 1..n
      PROVE  \E m \in Range(nodes[r]) :
               /\ m.id = hooks[r][i][e][k] /\ m.analysis = a.name
               /\ places[k].field \in {"any", m.approximation}
               /\ \A x \in places[k].point : x[2] = 24 => m.vertex = x[1]
  <2> DEFINE nm == w[k]
  <2>1. hooks[r][i][e][k] = B[i] + IdOf(ShapeOf(fe), nm) /\ places[k] = PlaceIs(fe, nm) /\ Has(ShapeOf(fe), e, nm)
    BY <1>4
  <2> HIDE DEF nm, places
  <2>2. PICK m \in Range(nodes[r]) : NodeFor(B[i], a, fe, m, nm)
    BY <1>1, <2>1, EndCreated
  <2>3. m.id = hooks[r][i][e][k] /\ m.analysis = a.name
    BY <2>1, <2>2 DEF NodeFor
  <2>4. places[k].field \in {"any", m.approximation}
    BY <2>1, <2>2 DEF NodeFor, PlaceIs
  <2>5. ASSUME NEW x \in places[k].point, x[2] = 24
        PROVE  m.vertex = x[1]
    <3>1. x \in PointOf(ShapeOf(fe), nm)
      BY <2>1 DEF PlaceIs
    <3>2. nm[1] \in {1, 5} /\ x[1] = VertexOf(fe, nm)
      BY <1>2, <2>1, <2>5, <3>1, PlaceAtVertex
    <3> QED BY <2>2, <3>2 DEF NodeFor
  <2> QED BY <2>3, <2>4, <2>5
<1> QED BY <1>5, <1>6

\* What some element sees of an analysis comes from a name of it.
SeenAs(B, i, a, fe, x, e, nm) ==
  /\ Works(i, a, fe) /\ e \in 1..Nel /\ Has(ShapeOf(fe), e, nm)
  /\ x[1] = B[i] + IdOf(ShapeOf(fe), nm) /\ x[2] = PlaceIs(fe, nm)
  /\ IdOf(ShapeOf(fe), nm) \in Int /\ IdOf(ShapeOf(fe), nm) > 0
  /\ \E r \in Ranks : nm \in Created(r, fe)
LEMMA EndSeen ==
  ASSUME NEW B, AtTheEnd(B), NEW i \in Analyses, NEW x \in SeenByAll(i)
  PROVE  LET a == setting.analyses[i] IN \E e, nm : SeenAs(B, i, a, FiniteElement(a), x, e, nm)
<1> DEFINE a == setting.analyses[i]
           fe == FiniteElement(a)
<1>1. PICK r \in Ranks : x \in UNION {Seen(i, e, r) : e \in my_elements[r]}
  BY DEF SeenByAll
<1>2. PICK e \in my_elements[r] : x \in Seen(i, e, r)
  BY <1>1
<1>3. PICK k \in DOMAIN hooks[r][i][e] : x = <<hooks[r][i][e][k], NodePlaces(iomodel, fe, e)[k]>>
  BY <1>2 DEF Seen
<1>4. e \in 1..Nel /\ hooks[r][i] = HooksFrom(B[i], r, a)
  BY <1>2, EndFacts
<1>5. IsSolved(a)
  <2>1. SUFFICES ASSUME ~IsSolved(a) PROVE FALSE
    OBVIOUS
  <2>2. e \in Elements
    BY <1>4, EndFacts, IoFacts
  <2>3. hooks[r][i][e] = << >>
    BY <1>4, <2>1, <2>2 DEF HooksFrom
  <2> QED BY <1>3, <2>3
<1>6. Works(i, a, fe)
  BY <1>5 DEF Works
<1> HIDE DEF a, fe
<1>7. PICK n, w : Views(B, r, i, fe, e, n, w)
  BY <1>2, <1>6, EndShows
<1>8. /\ n \in Nat /\ hooks[r][i][e] = [l \in 1..n |-> B[i] + IdOf(ShapeOf(fe), w[l])]
      /\ NodePlaces(iomodel, fe, e) = [l \in 1..n |-> PlaceIs(fe, w[l])]
      /\ \A l \in 1..n : Has(ShapeOf(fe), e, w[l])
  BY <1>7 DEF Views
<1> DEFINE nm == w[k]
<1>9. k \in 1..n
  BY <1>3, <1>8
<1>10. Has(ShapeOf(fe), e, nm) /\ x[1] = B[i] + IdOf(ShapeOf(fe), nm) /\ x[2] = PlaceIs(fe, nm)
  BY <1>3, <1>8, <1>9
<1> HIDE DEF nm
<1>11. nm \in Created(r, fe) /\ IdOf(ShapeOf(fe), nm) \in Int /\ IdOf(ShapeOf(fe), nm) > 0
  BY <1>2, <1>6, <1>10, EndCreated
<1>12. SeenAs(B, i, a, fe, x, e, nm)
  BY <1>4, <1>6, <1>10, <1>11 DEF SeenAs
<1> QED BY <1>12 DEF a, fe

LEMMA EarlierSmaller ==
  ASSUME NEW B, AtTheEnd(B), NEW i \in Analyses, NEW j \in Analyses, i < j,
         NEW a, NEW fe, NEW x, NEW e, NEW nm, SeenAs(B, i, a, fe, x, e, nm),
         NEW b, NEW ge, NEW y, NEW f, NEW mm, SeenAs(B, j, b, ge, y, f, mm)
  PROVE  x[1] # y[1]
<1>1. PICK r \in Ranks : nm \in Created(r, fe)
  BY DEF SeenAs
<1>2. j <= current[r] /\ B[i] \in Nat /\ B[j] \in Nat
  BY EndFacts
<1>3. AnalysesApart(B) /\ Works(i, a, fe)
  BY DEF AtTheEnd, CountedFrom, SeenAs
<1>4. B[i] + IdOf(ShapeOf(fe), nm) <= B[j]
  BY <1>1, <1>2, <1>3 DEF AnalysesApart
<1>5. x[1] = B[i] + IdOf(ShapeOf(fe), nm) /\ IdOf(ShapeOf(fe), nm) \in Int
  BY DEF SeenAs
<1>6. y[1] = B[j] + IdOf(ShapeOf(ge), mm) /\ IdOf(ShapeOf(ge), mm) \in Int /\ IdOf(ShapeOf(ge), mm) > 0
  BY DEF SeenAs
<1> QED BY <1>2, <1>4, <1>5, <1>6

LEMMA EndApart ==
  ASSUME NEW B, AtTheEnd(B), NEW i \in Analyses, NEW j \in Analyses, NEW x \in SeenByAll(i), NEW y \in SeenByAll(j)
  PROVE  x[1] = y[1] <=> (i = j /\ x[2] = y[2])
<1> DEFINE a == setting.analyses[i]
           fe == FiniteElement(a)
           b == setting.analyses[j]
           ge == FiniteElement(b)
<1>1. PICK e, nm : SeenAs(B, i, a, fe, x, e, nm)
  BY EndSeen
<1>2. PICK f, mm : SeenAs(B, j, b, ge, y, f, mm)
  BY EndSeen
<1>3. i \in Int /\ j \in Int /\ Sound /\ Partitioned /\ B[i] \in Nat
  <2>1. PICK r \in Ranks : nm \in Created(r, fe)
    BY <1>1 DEF SeenAs
  <2> QED BY <2>1, EndFacts
<1> HIDE DEF a, b, fe, ge
<1>4. CASE i < j
  BY <1>1, <1>2, <1>4, EarlierSmaller
<1>5. CASE j < i
  BY <1>1, <1>2, <1>5, EarlierSmaller
<1>6. CASE i = j
  <2>1. fe = ge
    BY <1>6 DEF a, b, fe, ge
  <2> DEFINE sh == ShapeOf(fe)
  <2>2. /\ x[1] = B[i] + IdOf(sh, nm) /\ IdOf(sh, nm) \in Int /\ Has(sh, e, nm) /\ e \in 1..Nel /\ x[2] = PlaceIs(fe, nm)
    BY <1>1 DEF SeenAs
  <2>3. /\ y[1] = B[i] + IdOf(sh, mm) /\ IdOf(sh, mm) \in Int /\ Has(sh, f, mm) /\ f \in 1..Nel /\ y[2] = PlaceIs(fe, mm)
    BY <1>2, <1>6, <2>1 DEF SeenAs
  <2>4. GoodShape(sh)
    BY ShapeIsGood
  <2>5. x[2] = y[2] => nm = mm
    BY <1>3, <2>2, <2>3, PlacesApart
  <2> HIDE DEF sh
  <2>6. IsName(sh, nm) /\ IsName(sh, mm)
    BY <1>3, <2>2, <2>3, <2>4, HasIsName
  <2>7. x[1] = y[1] => IdOf(sh, nm) = IdOf(sh, mm)
    <3>1. \A N \in Int : \A p, q \in Int : N + p = N + q => p = q
      OBVIOUS
    <3>2. B[i] \in Int
      BY <1>3
    <3> QED BY <2>2, <2>3, <3>1, <3>2
  <2>8. x[1] = y[1] => nm = mm
    BY <1>3, <2>4, <2>6, <2>7, IdsApart
  <2> QED BY <1>6, <2>2, <2>3, <2>5, <2>8
<1> QED BY <1>3, <1>4, <1>5, <1>6

\* A rank has no node for nothing.
LEMMA EndUsed ==
  ASSUME NEW B, AtTheEnd(B), NEW r \in Ranks, NEW n \in Range(nodes[r])
  PROVE  IsForALoad(r, n) \/ \E i \in Analyses : \E e \in my_elements[r] : n.id \in Range(hooks[r][i][e])
<1>1. RankInv(B, r) /\ Marked(r)
  BY EndFacts
<1>2. PICK i \in Analyses : \E a, fe : HasMade(r, i) /\ Works(i, a, fe) /\ \E nm \in Created(r, fe) : NodeFor(B[i], a, fe, n, nm)
  BY <1>1 DEF RankInv, RankKnows
<1>3. PICK a, fe : HasMade(r, i) /\ Works(i, a, fe) /\ \E nm \in Created(r, fe) : NodeFor(B[i], a, fe, n, nm)
  BY <1>2
<1>4. PICK nm \in Created(r, fe) : NodeFor(B[i], a, fe, n, nm)
  BY <1>3
<1>5. OwnName(r, fe, nm) \/ PairName(r, fe, nm) \/ FluxName(r, fe, nm)
  BY <1>1, <1>4, CreatedAreUsed
<1>6. CASE OwnName(r, fe, nm)
  <2>1. PICK e \in my_elements[r] : Has(ShapeOf(fe), e, nm)
    BY <1>6 DEF OwnName
  <2>2. PICK m, w : Views(B, r, i, fe, e, m, w)
    BY <1>3, <2>1, EndShows
  <2>3. PICK k \in 1..m : w[k] = nm
    BY <2>1, <2>2 DEF Views
  <2>4. n.id = B[i] + IdOf(ShapeOf(fe), nm)
    BY <1>4 DEF NodeFor
  <2>5. k \in DOMAIN hooks[r][i][e] /\ hooks[r][i][e][k] = n.id
    BY <2>2, <2>3, <2>4 DEF Views
  <2>6. n.id \in Range(hooks[r][i][e])
    BY <2>5 DEF Range
  <2> QED BY <2>1, <2>6
<1>7. CASE PairName(r, fe, nm)
  BY <1>4, <1>7 DEF PairName, NodeFor, IsForALoad
<1>8. CASE FluxName(r, fe, nm)
  <2>1. HasLoad(loads[r], a, B[i] + IdOf(ShapeOf(fe), nm))
    BY <1>1, <1>3, <1>8 DEF RankInv, RankFluxes
  <2>2. n.id = B[i] + IdOf(ShapeOf(fe), nm) /\ n.analysis = a.name
    BY <1>4 DEF NodeFor
  <2> QED BY <2>1, <2>2 DEF HasLoad, IsForALoad
<1> QED BY <1>5, <1>6, <1>7, <1>8

LEMMA EndResolves ==
  ASSUME NodesInv, MarksInv, ModelsAreSound, HooksInv
  PROVE  HooksResolve
<1> SUFFICES ASSUME Done PROVE HooksResolve
  BY DEF HooksResolve
<1>1. PICK B : CountedFrom(B)
  BY DEF HooksInv
<1>2. AtTheEnd(B)
  BY <1>1 DEF AtTheEnd, HooksInv
<1>3. \A r \in Ranks : \A j, k \in DOMAIN nodes[r] : j < k => nodes[r][j].id < nodes[r][k].id
  BY <1>1 DEF CountedFrom, RankInv, Rises
<1>4. \A r \in Ranks, i \in Analyses : \A e \in my_elements[r] : Finds(r, i, e)
  BY <1>2, EndFinds
<1>5. \A i, j \in Analyses : \A x \in SeenByAll(i), y \in SeenByAll(j) : x[1] = y[1] <=> (i = j /\ x[2] = y[2])
  BY <1>2, EndApart
<1>6. \A r \in Ranks : \A n \in Range(nodes[r]) :
         IsForALoad(r, n) \/ \E i \in Analyses : \E e \in my_elements[r] : n.id \in Range(hooks[r][i][e])
  BY <1>2, EndUsed
<1> QED BY <1>3, <1>4, <1>5, <1>6, Zenon DEF HooksResolve, Finds

(***************************************************************************)
(* Where the ids lead (HooksResolve).  When the ranks are done, the nodes  *)
(* of each rank are in the order of their ids (CreateNodes.cpp); each      *)
(* element finds among them, for every analysis and by the ids that Update *)
(* gave it, as many nodes as its basis functions have, each of the right   *)
(* field and on the right vertex; the elements of all the ranks mean the   *)
(* same node by an id if they mean the same point; and a rank has no node  *)
(* that neither an element nor a load of it asks for.  This is so for any  *)
(* number of ranks, any partition, any sound mesh and any analyses and     *)
(* finite elements.                                                        *)
(***************************************************************************)
THEOREM HooksAreResolved ==
  ASSUME ModelsAreSound
  PROVE  Spec => []HooksResolve
<1> DEFINE IInv == NodesInv /\ MarksInv /\ HooksInv
<1>1. Init => IInv
  BY InitNodes, InitMarks, InitHooks
<1>2. IInv /\ [Next]_vars => IInv'
  <2>1. SUFFICES ASSUME IInv, [Next]_vars PROVE IInv'
    OBVIOUS
  <2>2. NodesInv'
    BY <2>1, NextNodes
  <2>3. MarksInv'
    BY <2>1, <2>2, NextMarks
  <2>4. HooksInv'
    BY <2>1, NextHooks
  <2> QED BY <2>2, <2>3, <2>4
<1>3. IInv => HooksResolve
  BY EndResolves
<1> QED BY <1>1, <1>2, <1>3, PTL DEF Spec


-----------------------------------------------------------------------------
(***************************************************************************)
(* The partition: the elements at the two sides of a rift are on one rank. *)
(***************************************************************************)
LEMMA EpartIsFold ==
  ASSUME NEW s, NEW n, DOMAIN s.rifts = 1..n
  PROVE  Epart(s) = (CHOOSE g : Table(g, "rift", s.epart, s.rifts, n))[1..n]
<1>1. Epart(s) = FoldLeft(JoinTo, s.epart, s.rifts)
  BY DEF Epart, JoinTo, FoldLeft, MapThenFoldSet
<1>2. FoldLeft(JoinTo, s.epart, s.rifts) = (CHOOSE g : Table(g, "rift", s.epart, s.rifts, n))[1..n]
  BY DEF FoldLeft, MapThenFoldSet, Table, Step
<1> QED BY <1>1, <1>2

\* One rift after the other: those before it stay together.
LEMMA RiftsAreJoined ==
  ASSUME NEW s, NEW D, NEW R, NEW n \in Nat, DOMAIN s.rifts = 1..n, s.epart \in [D -> R],
         \A i \in 1..n : s.rifts[i].el1 \in D /\ s.rifts[i].el2 \in D,
         RiftsInTurn(s)
  PROVE  /\ Epart(s) \in [D -> R]
         /\ \A i \in 1..n : Epart(s)[s.rifts[i].el1] = Epart(s)[s.rifts[i].el2]
<1> DEFINE f == s.rifts
<1>1. PICK h : Steps(h, "rift", s.epart, f, n, Epart(s))
  BY EpartIsFold, StepsOf
<1>2. \A i \in 1..n : f[i].el1 \in D /\ f[i].el2 \in D
  OBVIOUS
<1>3. \A i, j \in 1..n : i < j => /\ f[j].el2 # f[i].el1
                                  /\ f[j].el2 = f[i].el2 => f[j].el1 = f[i].el1
  BY DEF RiftsInTurn
<1>4. h[0] \in [D -> R] /\ h[n] = Epart(s) /\ \A i \in 1..n : h[i] = JoinTo(h[i - 1], f[i])
  BY <1>1 DEF Steps, Step
<1> HIDE DEF f
<1> DEFINE Good == {k \in 0..n : h[k] \in [D -> R] /\ \A i \in 1..k : h[k][f[i].el1] = h[k][f[i].el2]}
<1>5. 0 \in Good
  BY <1>4
<1>6. ASSUME NEW k \in 1..n, k - 1 \in Good
      PROVE  k \in Good
  <2> DEFINE old == h[k - 1]
  <2> DEFINE new == h[k]
  <2>1. /\ k - 1 \in 0..n /\ k \in 0..n /\ old \in [D -> R] /\ new = JoinTo(old, f[k])
        /\ \A i \in 1..(k - 1) : old[f[i].el1] = old[f[i].el2]
    BY <1>4, <1>6
  <2>2. f[k].el1 \in D /\ f[k].el2 \in D
    BY <1>2
  <2> HIDE DEF old, new
  <2>3. new \in [D -> R] /\ new[f[k].el2] = old[f[k].el1] /\ \A x \in D : x # f[k].el2 => new[x] = old[x]
    BY <2>1, <2>2 DEF JoinTo
  <2>4. new[f[k].el1] = new[f[k].el2]
    BY <2>2, <2>3
  <2>5. ASSUME NEW i \in 1..(k - 1)
        PROVE  new[f[i].el1] = new[f[i].el2]
    <3>1. i \in 1..n /\ i < k
      OBVIOUS
    <3>2. f[k].el2 # f[i].el1 /\ (f[k].el2 = f[i].el2 => f[k].el1 = f[i].el1) /\ f[i].el1 \in D /\ f[i].el2 \in D
      BY <1>2, <1>3, <3>1
    <3>3. old[f[i].el1] = old[f[i].el2]
      BY <2>1
    <3> QED BY <2>3, <3>2, <3>3
  <2>6. \A i \in 1..k : i = k \/ i \in 1..(k - 1)
    OBVIOUS
  <2> QED BY <2>1, <2>3, <2>4, <2>5, <2>6 DEF new
<1> HIDE DEF Good
<1>7. \A k \in 0..n : k \in Good
  BY <1>5, <1>6, UpTo
<1>8. n \in Good
  BY <1>7
<1> QED BY <1>4, <1>8 DEF Good, f

LEMMA EpartIs ==
  ASSUME Partitioned, LoadsAreSound
  PROVE  /\ Epart(setting) \in [1..Nel -> Ranks]
         /\ \A f \in Range(setting.rifts) : Epart(setting)[f.el1] = Epart(setting)[f.el2]
<1>1. setting \in Settings /\ iomodel.mesh = setting.mesh /\ IsMesh(iomodel.mesh)
  BY MeshIsKnown DEF Partitioned
<1> DEFINE D == DOMAIN setting.mesh.elements
<1>2. D = 1..Nel
  BY <1>1, MeshFacts DEF Nel, NumberOfElements
<1>3. SoundLoads(setting)
  BY <1>1 DEF LoadsAreSound
<1>4. /\ setting.epart \in [D -> Ranks] /\ Len(setting.rifts) \in Nat /\ DOMAIN setting.rifts = 1..Len(setting.rifts)
      /\ RiftsInTurn(setting)
      /\ \A i \in DOMAIN setting.rifts : setting.rifts[i].el1 \in D /\ setting.rifts[i].el2 \in D
  BY <1>3 DEF SoundLoads, Range
<1> DEFINE n == Len(setting.rifts)
<1>6. n \in Nat /\ DOMAIN setting.rifts = 1..n
  BY <1>4
<1>7. \A i \in 1..n : setting.rifts[i].el1 \in D /\ setting.rifts[i].el2 \in D
  BY <1>4, <1>6
<1>8. setting.epart \in [D -> Ranks] /\ RiftsInTurn(setting)
  BY <1>4
<1> HIDE DEF D, n
<1>5. /\ Epart(setting) \in [D -> Ranks]
      /\ \A i \in 1..n : Epart(setting)[setting.rifts[i].el1] = Epart(setting)[setting.rifts[i].el2]
  BY <1>6, <1>7, <1>8, RiftsAreJoined
<1> QED BY <1>2, <1>5, <1>6 DEF Range

-----------------------------------------------------------------------------
(***************************************************************************)
(* The two elements of a side are different: the list of all sides has each *)
(* of them once.                                                           *)
(***************************************************************************)
Apart(s) == \A j, k \in DOMAIN s : s[j] = s[k] => j = k
\* The sequences have no entry in common.
Foreign(s, t) == \A x \in Range(s), y \in Range(t) : x # y

LEMMA ApartJoin ==
  ASSUME NEW R, NEW s \in Seq(R), NEW t \in Seq(R), Apart(s), Apart(t), Foreign(s, t)
  PROVE  Apart(s \o t)
<1>1. /\ s \o t \in Seq(R) /\ Len(s) \in Nat /\ Len(t) \in Nat
      /\ DOMAIN s = 1..Len(s) /\ DOMAIN t = 1..Len(t) /\ DOMAIN (s \o t) = 1..(Len(s) + Len(t))
      /\ \A k \in 1..(Len(s) + Len(t)) : (s \o t)[k] = IF k <= Len(s) THEN s[k] ELSE t[k - Len(s)]
  BY LenProperties, ConcatProperties
<1>2. ASSUME NEW j \in 1..(Len(s) + Len(t)), NEW k \in 1..(Len(s) + Len(t)), (s \o t)[j] = (s \o t)[k]
      PROVE  j = k
  <2>1. CASE j <= Len(s) /\ k <= Len(s)
    <3>1. j \in DOMAIN s /\ k \in DOMAIN s
      BY <1>1, <2>1
    <3> QED BY <1>1, <1>2, <2>1, <3>1 DEF Apart
  <2>2. CASE ~(j <= Len(s)) /\ ~(k <= Len(s))
    <3>1. j - Len(s) \in DOMAIN t /\ k - Len(s) \in DOMAIN t
      BY <1>1, <2>2
    <3>2. t[j - Len(s)] = t[k - Len(s)]
      BY <1>1, <1>2, <2>2
    <3>3. j - Len(s) = k - Len(s)
      BY <3>1, <3>2 DEF Apart
    <3> QED BY <1>1, <3>3
  <2>3. CASE j <= Len(s) /\ ~(k <= Len(s))
    <3>1. j \in DOMAIN s /\ k - Len(s) \in DOMAIN t
      BY <1>1, <2>3
    <3>2. s[j] \in Range(s) /\ t[k - Len(s)] \in Range(t)
      BY <3>1 DEF Range
    <3> QED BY <1>1, <1>2, <2>3, <3>2 DEF Foreign
  <2>4. CASE ~(j <= Len(s)) /\ k <= Len(s)
    <3>1. k \in DOMAIN s /\ j - Len(s) \in DOMAIN t
      BY <1>1, <2>4
    <3>2. s[k] \in Range(s) /\ t[j - Len(s)] \in Range(t)
      BY <3>1 DEF Range
    <3> QED BY <1>1, <1>2, <2>4, <3>2 DEF Foreign
  <2> QED BY <2>1, <2>2, <2>3, <2>4
<1> QED BY <1>1, <1>2 DEF Apart

LEMMA FlattenApart ==
  ASSUME NEW R, NEW n \in Nat, NEW ss \in [1..n -> Seq(R)], \A i \in 1..n : Apart(ss[i]),
         \A i, j \in 1..n : i < j => Foreign(ss[i], ss[j])
  PROVE  Apart(FlattenSeq(ss))
<1>1. ss \in Seq(Seq(R)) /\ Len(ss) = n /\ DOMAIN ss = 1..n
  <2>1. ss \in Seq(Seq(R))
    BY SeqDef
  <2>2. DOMAIN ss = 1..n /\ DOMAIN ss = 1..Len(ss) /\ Len(ss) \in Nat
    BY <2>1, LenProperties
  <2>3. Len(ss) = n
    BY <2>2
  <2> QED BY <2>1, <2>2, <2>3
<1>2. CASE n = 0
  <2>1. FlattenSeq(ss) = ss /\ DOMAIN ss = {}
    BY <1>1, <1>2 DEF FlattenSeq
  <2> QED BY <2>1 DEF Apart
<1>3. CASE n # 0
  <2> DEFINE F == CHOOSE f : Flattens(f, ss, n)
  <2>1. Flattens(F, ss, n)
    BY FlattenExists, SMTT(60)
  <2>2. FlattenSeq(ss) = F[n]
    BY <1>1, <1>3 DEF FlattenSeq, Flattens
  <2>3. \A i \in 1..n : F[i] = IF i = 1 THEN ss[i] ELSE F[i-1] \o ss[i]
    BY <2>1, Zenon DEF Flattens
  <2> HIDE DEF F
  <2> DEFINE Right(k) == /\ F[k] \in Seq(R) /\ Apart(F[k])
                         /\ \A x \in Range(F[k]) : \E i \in 1..k : x \in Range(ss[i])
  <2> DEFINE Good == {k \in 0..n : k = 0 \/ Right(k)}
  <2>4. ASSUME NEW k \in 1..n, k - 1 \in Good
        PROVE  k \in Good
    <3>1. ss[k] \in Seq(R) /\ Apart(ss[k]) /\ k \in 0..n
      OBVIOUS
    <3>2. CASE k = 1
      <4>1. F[k] = ss[k]
        BY <2>3, <3>2
      <4> QED BY <3>1, <3>2, <4>1
    <3>3. CASE k # 1
      <4>1. Right(k - 1) /\ k - 1 \in 1..n
        BY <2>4, <3>3
      <4>2. F[k] = F[k - 1] \o ss[k]
        BY <2>3, <3>3
      <4>3. Foreign(F[k - 1], ss[k])
        <5> SUFFICES ASSUME NEW m \in Range(F[k - 1]), NEW x \in Range(ss[k])
                     PROVE  m # x
          BY DEF Foreign
        <5>1. PICK i \in 1..(k - 1) : m \in Range(ss[i])
          BY <4>1
        <5>2. i \in 1..n /\ i < k
          BY <4>1
        <5>3. Foreign(ss[i], ss[k])
          BY <5>2
        <5> QED BY <5>1, <5>3 DEF Foreign
      <4>4. F[k] \in Seq(R) /\ Range(F[k]) = Range(F[k - 1]) \cup Range(ss[k])
        BY <3>1, <4>1, <4>2, RangeOfConcat
      <4>5. Apart(F[k])
        BY <3>1, <4>1, <4>2, <4>3, ApartJoin
      <4>6. ASSUME NEW x \in Range(F[k])
            PROVE  \E i \in 1..k : x \in Range(ss[i])
        <5>1. CASE x \in Range(F[k - 1])
          <6>1. PICK i \in 1..(k - 1) : x \in Range(ss[i])
            BY <4>1, <5>1
          <6>2. i \in 1..k
            BY <4>1
          <6> QED BY <6>1, <6>2
        <5>2. CASE x \in Range(ss[k])
          <6>1. k \in 1..k
            BY <4>1
          <6> QED BY <5>2, <6>1
        <5> QED BY <4>4, <5>1, <5>2
      <4> QED BY <3>1, <4>4, <4>5, <4>6
    <3> QED BY <3>2, <3>3
  <2>5. 0 \in Good
    OBVIOUS
  <2> HIDE DEF Good
  <2>6. n \in Good
    <3>1. \A i \in 0..n : i \in Good
      BY <2>4, <2>5, UpTo
    <3> QED BY <3>1
  <2>7. Apart(F[n])
    BY <1>3, <2>6 DEF Good
  <2> QED BY <2>2, <2>7
<1> QED BY <1>2, <1>3

\* The side k of element e, with its vertices.
IsSideOf(x, e, k) == x = SideOf(iomodel.mesh, e, k)

LEMMA SidesListed ==
  ASSUME Sound, Kind = "tria"
  PROVE  /\ Apart(AllSides(iomodel.mesh))
         /\ \A x \in Range(AllSides(iomodel.mesh)) : \E e \in 1..Nel, k \in 1..3 : IsSideOf(x, e, k)
<1> DEFINE mesh == iomodel.mesh
<1> DEFINE T == [e \in 1..Nel |-> [c \in 1..3 |-> SideOf(mesh, e, c)]]
<1> DEFINE R == {SideOf(mesh, q[1], q[2]) : q \in (1..Nel) \X (1..3)}
<1>0. IsMesh(mesh) /\ Partitioned /\ Nc = 3 /\ Nel \in Nat /\ DOMAIN mesh.elements = 1..Nel
  <2>1. IsMesh(mesh) /\ Partitioned /\ Nc = 3 /\ Nel \in Nat
    BY MeshIsKnown, IoFacts DEF Sound, Nc
  <2>2. DOMAIN mesh.elements = 1..Nel
    BY <2>1, MeshFacts DEF Nel, NumberOfElements
  <2> QED BY <2>1, <2>2
<1>1. AllSides(mesh) = FlattenSeq(T)
  BY <1>0 DEF AllSides
<1>2. \A e \in 1..Nel, c \in 1..3 : T[e][c] = SideOf(mesh, e, c)
  OBVIOUS
<1>3. ASSUME NEW e \in 1..Nel, NEW c \in 1..3
      PROVE  SideOf(mesh, e, c) \in R
  <2> DEFINE q == <<e, c>>
  <2>1. q \in (1..Nel) \X (1..3) /\ q[1] = e /\ q[2] = c
    OBVIOUS
  <2> HIDE DEF q
  <2> QED BY <2>1
<1>4. ASSUME NEW e \in 1..Nel
      PROVE  T[e] \in [1..3 -> R]
  BY <1>3
<1>5. ASSUME NEW e \in 1..Nel, NEW c \in 1..3
      PROVE  /\ SideOf(mesh, e, c).e1 = e
             /\ SideOf(mesh, e, c).v = <<Place(e, c), Place(e, Following(c))>>
  BY SidesAre DEF SideOf
<1>6. ASSUME NEW e \in 1..Nel, NEW c \in 1..3, NEW d \in 1..3, SideOf(mesh, e, c) = SideOf(mesh, e, d)
      PROVE  c = d
  <2>1. SideOf(mesh, e, c).v[1] = Place(e, c) /\ SideOf(mesh, e, d).v[1] = Place(e, d)
    BY <1>5
  <2>2. Place(e, c) = Place(e, d)
    BY <1>6, <2>1
  <2> QED BY <1>0, <2>2, CornersDiffer
<1>7. IsTable(T, Nel, 3, R)
  BY <1>4 DEF IsTable
<1> HIDE DEF T, R
<1>8. T \in [1..Nel -> Seq(R)]
  <2>1. \A e \in 1..Nel : T[e] \in Seq(R)
    BY <1>4, SeqDef
  <2> QED BY <1>7, <2>1 DEF IsTable
<1>9. \A e \in 1..Nel : DOMAIN T[e] = 1..3
  BY <1>4
<1>10. \A e \in 1..Nel : Apart(T[e])
  BY <1>2, <1>6, <1>9 DEF Apart
<1>11. ASSUME NEW e \in 1..Nel, NEW f \in 1..Nel, e < f
       PROVE  Foreign(T[e], T[f])
  <2>1. \A x \in Range(T[e]) : x.e1 = e
    BY <1>2, <1>5, <1>9 DEF Range
  <2>2. \A x \in Range(T[f]) : x.e1 = f
    BY <1>2, <1>5, <1>9 DEF Range
  <2> QED BY <1>11, <2>1, <2>2 DEF Foreign
<1>12. Apart(FlattenSeq(T))
  BY <1>0, <1>8, <1>10, <1>11, FlattenApart
<1>13. \A x : x \in Range(FlattenSeq(T)) <=> InTable(x, T, Nel, 3)
  BY <1>0, <1>7, FlatTable
<1>14. ASSUME NEW x \in Range(AllSides(mesh))
       PROVE  \E e \in 1..Nel, k \in 1..3 : IsSideOf(x, e, k)
  BY <1>1, <1>2, <1>13 DEF InTable, IsSideOf
<1> QED BY <1>1, <1>12, <1>14

LEMMA TwoSides ==
  ASSUME Sound, Kind = "tria", NEW f \in Range(iomodel.faces)
  PROVE  f.e2 # f.e1
<1> DEFINE mesh == iomodel.mesh
<1> DEFINE s == AllSides(mesh)
<1> DEFINE N == SideRecords(mesh)
<1> DEFINE faces == Faces2d(mesh)
<1>0. IsMesh(mesh) /\ Partitioned /\ Nc = 3 /\ iomodel.faces = faces
  BY MeshIsKnown, IoFacts DEF Sound, Nc
<1>1. PICK n \in Nat : n = Len(s) /\ DOMAIN s = 1..n /\ \A i \in 1..n : s[i] \in N
  BY <1>0, SidesOfElements, LenProperties
<1>2. PICK h : Steps(h, "side", << >>, s, n, faces)
  BY <1>1, SidesAreFold, StepsOf
<1>3. Apart(s) /\ \A i \in 1..n : \E e \in 1..Nel, k \in 1..3 : IsSideOf(s[i], e, k)
  BY <1>1, SidesListed DEF Range
<1>4. ASSUME NEW e \in 1..Nel, NEW k \in 1..3, NEW x, IsSideOf(x, e, k)
      PROVE  x.e1 = e /\ x.e2 = 0 /\ x.v[1] = Place(e, k) /\ x.v[2] = Place(e, Following(k)) /\ Following(k) \in 1..3
  BY <1>4, SidesAre DEF IsSideOf, SideOf, Following
\* Two sides of one element with the same ends are one.
<1>5. ASSUME NEW i \in 1..n, NEW j \in 1..n, s[i].e1 = s[j].e1,
             {s[i].v[1], s[i].v[2]} = {s[j].v[1], s[j].v[2]}
      PROVE  i = j
  <2>1. PICK e \in 1..Nel, k \in 1..3 : IsSideOf(s[i], e, k)
    BY <1>3
  <2>2. PICK g \in 1..Nel, l \in 1..3 : IsSideOf(s[j], g, l)
    BY <1>3
  <2>3. /\ s[i].e1 = e /\ s[i].v[1] = Place(e, k) /\ s[i].v[2] = Place(e, Following(k)) /\ Following(k) \in 1..3
        /\ s[j].e1 = g /\ s[j].v[1] = Place(g, l) /\ s[j].v[2] = Place(g, Following(l)) /\ Following(l) \in 1..3
    BY <1>4, <2>1, <2>2
  <2>4. e = g
    BY <1>5, <2>3
  <2>5. \A p, q \in 1..3 : Place(e, p) = Place(e, q) => p = q
    BY <1>0, CornersDiffer
  <2>6. {Place(e, k), Place(e, Following(k))} = {Place(e, l), Place(e, Following(l))}
    BY <1>5, <2>3, <2>4
  <2>7. (Place(e, k) = Place(e, l) /\ Place(e, Following(k)) = Place(e, Following(l)))
        \/ (Place(e, k) = Place(e, Following(l)) /\ Place(e, Following(k)) = Place(e, l))
    BY <2>6, SamePair
  <2>8. k = l \/ (k = Following(l) /\ Following(k) = l)
    BY <2>3, <2>5, <2>7
  <2>9. k = l
    BY <2>8 DEF Following
  <2>10. s[i] = s[j]
    BY <2>1, <2>2, <2>4, <2>9 DEF IsSideOf
  <2> QED BY <1>1, <1>3, <2>10 DEF Apart
<1>6. h[0] = << >> /\ h[n] = faces /\ \A k \in 1..n : h[k] = AddSideTo(h[k - 1], s[k])
  BY <1>2 DEF Steps, Step
<1>7. \A k \in 1..n : s[k].e1 # s[k].e2
  <2> SUFFICES ASSUME NEW k \in 1..n PROVE s[k].e1 # s[k].e2
    OBVIOUS
  <2>1. PICK e \in 1..Nel, c \in 1..3 : IsSideOf(s[k], e, c)
    BY <1>3
  <2>2. s[k].e1 = e /\ s[k].e2 = 0
    BY <1>4, <2>1
  <2> QED BY <2>2
<1> HIDE DEF s, N, faces
<1> DEFINE FromBefore(x, k) == \E j \in 1..k : x.v = s[j].v /\ x.e1 = s[j].e1
<1> DEFINE Right(k) == h[k] \in Seq(N) /\ \A x \in Range(h[k]) : x.e2 # x.e1 /\ FromBefore(x, k)
<1> DEFINE Good == {k \in 0..n : Right(k)}
<1>8. 0 \in Good
  <2>1. h[0] = << >> /\ Range(<< >>) = {} /\ 0 \in 0..n
    BY <1>6 DEF Range
  <2> QED BY <2>1, EmptySeq
<1>9. ASSUME NEW k \in 1..n, k - 1 \in Good
      PROVE  k \in Good
  <2> DEFINE old == h[k - 1]
  <2> DEFINE new == h[k]
  <2> DEFINE side == s[k]
  <2> DEFINE Same(x) == {side.v[1], side.v[2]} = {x.v[1], x.v[2]}
  <2> DEFINE Closed(x) == [x EXCEPT !.e2 = side.e1]
  <2>1. Right(k - 1) /\ k \in 0..n
    BY <1>9
  <2>2. new = AddSideTo(old, side) /\ side \in N /\ side.e1 # side.e2
    BY <1>1, <1>6, <1>7 DEF N, s
  <2>3. DOMAIN old = 1..Len(old) /\ Len(old) \in Nat /\ \A i \in 1..Len(old) : old[i] \in N
    BY <2>1, LenProperties
  <2>4. \A i \in DOMAIN old : old[i].e2 # old[i].e1 /\ FromBefore(old[i], k - 1)
    BY <2>1 DEF Range
  <2>5. \A x : FromBefore(x, k - 1) => FromBefore(x, k)
    <3>1. \A j \in 1..(k - 1) : j \in 1..k
      OBVIOUS
    <3> QED BY <3>1
  <2>6. FromBefore(side, k)
    <3>1. k \in 1..k
      OBVIOUS
    <3> QED BY <3>1
  <2>7. \A i \in DOMAIN old : Same(old[i]) => old[i].e1 # side.e1
    <3> SUFFICES ASSUME NEW i \in DOMAIN old, Same(old[i]), old[i].e1 = side.e1 PROVE FALSE
      OBVIOUS
    <3>1. PICK j \in 1..(k - 1) : old[i].v = s[j].v /\ old[i].e1 = s[j].e1
      BY <2>4
    <3>2. j \in 1..n /\ j # k
      OBVIOUS
    <3>3. s[k].e1 = s[j].e1 /\ {s[k].v[1], s[k].v[2]} = {s[j].v[1], s[j].v[2]}
      BY <3>1
    <3> HIDE DEF old, side, Same, FromBefore
    <3> QED BY <1>5, <3>2, <3>3 DEF s
  <2>8. \A x \in N : Closed(x).v = x.v /\ Closed(x).e1 = x.e1 /\ Closed(x).e2 = side.e1
    BY DEF N, SideRecords, SideFields
  <2>9. new \in Seq(N)
    <3>1. old \in Seq(N)
      BY <2>1
    <3> HIDE DEF old
    <3> QED BY <1>0, <2>2, <3>1, SideIsAdded DEF N
  <2>10. CASE \E i \in DOMAIN old : Same(old[i])
    <3>1. new = [i \in DOMAIN old |-> IF Same(old[i]) THEN Closed(old[i]) ELSE old[i]]
      BY <2>2, <2>10 DEF AddSideTo
    <3>2. ASSUME NEW i \in DOMAIN old
          PROVE  new[i].e2 # new[i].e1 /\ FromBefore(new[i], k)
      <4>1. old[i] \in N
        BY <2>3
      <4>2. CASE Same(old[i])
        <5>1. new[i] = Closed(old[i])
          BY <3>1, <4>2
        <5>2. new[i].v = old[i].v /\ new[i].e1 = old[i].e1 /\ new[i].e2 = side.e1
          BY <2>8, <4>1, <5>1
        <5>3. FromBefore(old[i], k)
          BY <2>4, <2>5
        <5>4. PICK j \in 1..k : old[i].v = s[j].v /\ old[i].e1 = s[j].e1
          BY <5>3
        <5>5. FromBefore(new[i], k)
          BY <5>2, <5>4
        <5>6. old[i].e1 # side.e1
          BY <2>7, <4>2
        <5>7. new[i].e2 # new[i].e1
          BY <5>2, <5>6
        <5> QED BY <5>5, <5>7
      <4>3. CASE ~Same(old[i])
        <5>1. new[i] = old[i]
          BY <3>1, <4>3
        <5> QED BY <2>4, <2>5, <5>1
      <4> QED BY <4>2, <4>3
    <3>3. DOMAIN new = DOMAIN old
      BY <3>1
    <3> HIDE DEF old, new, FromBefore
    <3>4. \A x \in Range(new) : x.e2 # x.e1 /\ FromBefore(x, k)
      BY <3>2, <3>3 DEF Range
    <3> QED BY <2>1, <2>9, <3>4 DEF new
  <2>11. CASE ~ \E i \in DOMAIN old : Same(old[i])
    <3>1. new = Append(old, side)
      BY <2>2, <2>11 DEF AddSideTo
    <3>2. old \in Seq(N)
      BY <2>1
    <3> HIDE DEF old, new, side
    <3>3. DOMAIN new = 1..(Len(old) + 1) /\ \A i \in 1..Len(old) : new[i] = old[i] /\ new[Len(old) + 1] = side
      BY <2>2, <3>1, <3>2, AppendProperties
    <3>4. new[Len(old) + 1] = side
      BY <2>2, <3>1, <3>2, AppendProperties
    <3>5. \A i \in 1..(Len(old) + 1) : i \in 1..Len(old) \/ i = Len(old) + 1
      BY <2>3
    <3> HIDE DEF FromBefore
    <3>6. ASSUME NEW i \in DOMAIN new
          PROVE  new[i].e2 # new[i].e1 /\ FromBefore(new[i], k)
      <4>1. CASE i \in 1..Len(old)
        <5>1. new[i] = old[i] /\ i \in DOMAIN old
          BY <2>3, <3>3, <4>1
        <5>2. old[i].e2 # old[i].e1 /\ FromBefore(old[i], k - 1)
          BY <2>4, <5>1
        <5>3. FromBefore(old[i], k)
          BY <2>5, <5>2
        <5> QED BY <5>1, <5>2, <5>3
      <4>2. CASE i = Len(old) + 1
        BY <2>2, <2>6, <3>4, <4>2
      <4> QED BY <3>3, <3>5, <4>1, <4>2
    <3>7. \A x \in Range(new) : x.e2 # x.e1 /\ FromBefore(x, k)
      BY <3>6 DEF Range
    <3> QED BY <2>1, <2>9, <3>7 DEF new
  <2> QED BY <2>10, <2>11
<1> HIDE DEF Good
<1>10. \A k \in 0..n : k \in Good
  BY <1>8, <1>9, UpTo
<1>11. n \in Good
  BY <1>10
<1>12. \A x \in Range(h[n]) : x.e2 # x.e1
  BY <1>11 DEF Good
<1> QED BY <1>0, <1>6, <1>12

-----------------------------------------------------------------------------
(***************************************************************************)
(* The loads that a rank creates find their nodes and elements.            *)
(***************************************************************************)
TakesFluxes(a) == a.name = "Masstransport" /\ a.stabilization = 3

NodeThere(S, l, k) == \E n \in S : n.id = l.nodes[k] /\ n.analysis = l.analysis /\ n.vertex = l.vertices[k]
ElementThere(r, l, k) ==
  l.elements[k] \in my_elements[r] /\ l.vertices[k] \in Range(iomodel.mesh.elements[l.elements[k]])
Resolved(r, l, S) ==
  /\ \A k \in DOMAIN l.nodes : NodeThere(S, l, k)
  /\ Cardinality(Range(l.nodes)) = Len(l.nodes)
  /\ \A k \in DOMAIN l.elements : ElementThere(r, l, k)
  /\ l.kind = "flux" => 1 \in DOMAIN l.elements

\* Among the nodes S are those of an analysis at the vertices V, counted from N.
VerticesHaveNodes(S, N, a, V) == \A v \in V : \E n \in S : n.id = N + v /\ n.analysis = a.name /\ n.vertex = v
\* And those at the corners of triangles.
CornerNodeThere(S, N, a, e, p) ==
  \E n \in S : n.id = N + (3 * (e - 1) + p) /\ n.analysis = a.name /\ n.vertex = Place(e, p)

LEMMA FluxesTaken ==
  ASSUME NEW a, AnalysisIs(a)
  PROVE  FiniteElement(a) = "P1DG" <=> TakesFluxes(a)
<1>1. a.fe # "P1DG"
  BY DEF AnalysisIs, ScalarElements, StokesElements
<1>2. CASE a.name = "Stressbalance"
  BY <1>1, <1>2 DEF FiniteElement, TakesFluxes
<1>3. CASE a.name = "Masstransport"
  BY <1>3 DEF FiniteElement, TakesFluxes
<1>4. CASE a.name # "Stressbalance" /\ a.name # "Masstransport"
  <2>1. FiniteElement(a) = "P1"
    BY <1>4 DEF FiniteElement
  <2> QED BY <1>4, <2>1 DEF TakesFluxes
<1> QED BY <1>2, <1>3, <1>4

LEMMA AnalysisNamed ==
  ASSUME Partitioned, NEW i \in Analyses
  PROVE  setting.analyses[i].name \in {"Stressbalance", "Masstransport", "Thermal", "Melting", "HydrologyDCInefficient"}
<1>1. setting.analyses \in Seq(AnalysisTypes)
  BY SettingsAssumption DEF Partitioned
<1> DEFINE a == setting.analyses[i]
<1>2. a \in AnalysisTypes
  BY <1>1, ElementOfSeq, LenProperties DEF Analyses
<1> HIDE DEF a
<1>3. a.name \in {"Stressbalance", "Masstransport", "Thermal", "Melting", "HydrologyDCInefficient"}
  BY <1>2 DEF AnalysisTypes
<1> QED BY <1>3 DEF a

\* A finite element that is continuous has a node at each vertex of the rank.
LEMMA VertexNodesMade ==
  ASSUME NEW r, Marked(r), NEW N \in Nat, NEW a, NEW fe, fe # "P1DG", NEW new, Makes(N, a, fe, new, Created(r, fe))
  PROVE  VerticesHaveNodes(Range(new), N, a, MyVertexSet(r))
<1> DEFINE sh == ShapeOf(fe)
<1>0. Partitioned
  BY DEF Marked, Sound
<1>1. GoodShape(sh) /\ Velocity(sh, VelocityInterpolation(fe))
  BY ShapeIsGood
<1>2. VelocityInterpolation(fe) # "P1DG"
  BY DEF VelocityInterpolation
<1> HIDE DEF sh
<1>3. sh.corner = 1
  BY <1>1, <1>2 DEF Velocity, Corner
<1> SUFFICES ASSUME NEW v \in MyVertexSet(r)
             PROVE  \E n \in Range(new) : n.id = N + v /\ n.analysis = a.name /\ n.vertex = v
  BY DEF VerticesHaveNodes
<1>4. v \in 1..Nv /\ v \in Nat /\ Nv \in Nat
  BY <1>0, MineAreThere, IoFacts DEF Marked
<1> DEFINE nm == <<1, v, 1>>
<1>5. nm \in Nat \X Nat \X Nat /\ nm[1] = 1 /\ nm[2] = v /\ nm[3] = 1
  BY <1>4
<1> HIDE DEF nm
<1>6. IsName(sh, nm)
  BY <1>3, <1>4, <1>5 DEF IsName, Blocks, Count, StrideOf
<1>7. IsMine(r, fe, nm)
  BY <1>5 DEF IsMine
<1>8. nm \in Created(r, fe)
  BY <1>5, <1>6, <1>7 DEF Created, sh
<1>9. PICK n \in Range(new) : NodeFor(N, a, fe, n, nm)
  BY <1>8 DEF Makes
<1>10. IdOf(sh, nm) = v
  <2>1. First(sh, 1) = 0 /\ StrideOf(sh, 1) = 1
    BY <1>3 DEF First, StrideOf
  <2> QED BY <1>4, <1>5, <2>1 DEF IdOf, IdIn
<1>11. VertexOf(fe, nm) = v
  BY <1>5 DEF VertexOf
<1> QED BY <1>5, <1>9, <1>10, <1>11 DEF NodeFor, sh

\* The discontinuous one has those at the corners of its triangles, and of its neighbours.
LEMMA CornerNodesMade ==
  ASSUME NEW r, Marked(r), Kind = "tria", NEW N \in Nat, NEW a, NEW new, Makes(N, a, "P1DG", new, Created(r, "P1DG")),
         NEW e \in 1..Nel, NEW p \in 1..3, <<e, p>> \in DiscontinuousNodes(r)
  PROVE  CornerNodeThere(Range(new), N, a, e, p)
<1> DEFINE sh == ShapeOf("P1DG")
<1>0. Partitioned /\ Nel \in Nat
  BY IoFacts DEF Marked, Sound
<1>1. Count(sh, 5) = Nel /\ StrideOf(sh, 5) = 3 /\ First(sh, 5) = 0
  BY <1>0, OwnShape
<1>2. PressOf("P1DG") = "own"
  BY DEF PressOf
<1> HIDE DEF sh
<1> DEFINE nm == <<5, e, p>>
<1>3. nm \in Nat \X Nat \X Nat /\ nm[1] = 5 /\ nm[2] = e /\ nm[3] = p
  BY <1>0
<1> HIDE DEF nm
<1>4. IsName(sh, nm)
  BY <1>1, <1>3 DEF IsName, Blocks
<1>5. IsMine(r, "P1DG", nm)
  BY <1>2, <1>3 DEF IsMine
<1>6. nm \in Created(r, "P1DG")
  BY <1>3, <1>4, <1>5 DEF Created, sh
<1>7. PICK n \in Range(new) : NodeFor(N, a, "P1DG", n, nm)
  BY <1>6 DEF Makes
<1>8. IdOf(sh, nm) = 3 * (e - 1) + p
  BY <1>0, <1>1, <1>3 DEF IdOf, IdIn
<1>9. VertexOf("P1DG", nm) = Place(e, p)
  BY <1>2, <1>3 DEF VertexOf
<1> QED BY <1>3, <1>7, <1>8, <1>9 DEF NodeFor, CornerNodeThere, sh

LEMMA OneNodeLoad ==
  ASSUME NEW r, NEW N \in Nat, NEW a, NEW S, NEW x \in Nat, NEW kind, kind # "flux", NEW e,
         VerticesHaveNodes(S, N, a, {x}), e \in my_elements[r], x \in Range(iomodel.mesh.elements[e]),
         NEW l, l = Load(a, kind, <<x>>, <<N + x>>, <<e>>)
  PROVE  Resolved(r, l, S) /\ l.kind # "flux"
<1>1. l.analysis = a.name /\ l.kind = kind /\ l.vertices = <<x>> /\ l.nodes = <<N + x>> /\ l.elements = <<e>>
  BY DEF Load
<1>2. DOMAIN l.nodes = {1} /\ DOMAIN l.elements = {1} /\ l.nodes[1] = N + x /\ l.vertices[1] = x /\ l.elements[1] = e
  BY <1>1
<1>3. NodeThere(S, l, 1)
  BY <1>1, <1>2 DEF VerticesHaveNodes, NodeThere
<1>4. Range(l.nodes) = {N + x} /\ Len(l.nodes) = 1
  BY <1>1 DEF Range
<1>5. Cardinality({N + x}) = 1
  BY FS_Singleton
<1> QED BY <1>1, <1>2, <1>3, <1>4, <1>5 DEF Resolved, ElementThere

LEMMA TwoNodeLoad ==
  ASSUME NEW r, NEW N \in Nat, NEW a, NEW S, NEW x \in Nat, NEW y \in Nat, x # y, NEW kind, kind # "flux", NEW es,
         VerticesHaveNodes(S, N, a, {x, y}),
         NEW l, l = Load(a, kind, <<x, y>>, <<N + x, N + y>>, es), \A k \in DOMAIN es : ElementThere(r, l, k)
  PROVE  Resolved(r, l, S) /\ l.kind # "flux"
<1>1. l.analysis = a.name /\ l.kind = kind /\ l.vertices = <<x, y>> /\ l.nodes = <<N + x, N + y>> /\ l.elements = es
  BY DEF Load
<1>2. DOMAIN l.nodes = {1, 2} /\ l.nodes[1] = N + x /\ l.vertices[1] = x /\ l.nodes[2] = N + y /\ l.vertices[2] = y
  BY <1>1
<1>3. NodeThere(S, l, 1) /\ NodeThere(S, l, 2)
  BY <1>1, <1>2 DEF VerticesHaveNodes, NodeThere
<1>4. Range(l.nodes) = {N + x, N + y} /\ Len(l.nodes) = 2
  BY <1>1 DEF Range
<1>5. Cardinality({N + x, N + y}) = 2
  <2>1. N + x # N + y
    OBVIOUS
  <2> QED BY <2>1, TwoElements
<1> QED BY <1>1, <1>2, <1>3, <1>4, <1>5 DEF Resolved

\* What a rank knows when it creates loads for an analysis with nodes at its vertices.
HasElements(r) == my_elements[r] = {e \in Elements : Epart(setting)[e] = r}
Loading(r, N, a, S) ==
  /\ Marked(r) /\ HasElements(r) /\ PairsComeInTurn /\ SoundLoads(setting)
  /\ N \in Nat /\ nodecounter[r] = N /\ VerticesHaveNodes(S, N, a, MyVertexSet(r))

PairsNow == Range(setting.pairing.stressbalance) \cup Range(setting.pairing.masstransport)

LEMMA PenpairsResolve ==
  ASSUME NEW r, NEW N, NEW a, NEW S, Loading(r, N, a, S), NEW pairs \in SUBSET PairsNow, NEW l \in Penpairs(r, a, pairs)
  PROVE  Resolved(r, l, S) /\ l.kind # "flux"
<1>0. Marked(r) /\ Partitioned /\ N \in Nat /\ nodecounter[r] = N /\ Nv \in Nat /\ Vertices = 1..Nv
  BY IoFacts DEF Loading, Marked, Sound
<1>1. PICK p \in pairs : my_vertices[r][p[1]] # 0
                         /\ l = Load(a, "penpair", p, <<AtVertex(r, p[1]), AtVertex(r, p[2])>>, << >>)
  BY DEF Penpairs
<1>2. p \in PairsNow
  OBVIOUS
<1>3. p \in Vertices \X Vertices
  <2>1. /\ IsPairs(AllPairs(setting), Len(AllPairs(setting)), Vertices)
        /\ \E i \in 1..Len(AllPairs(setting)) : AllPairs(setting)[i] = p
    BY <1>0, <1>2, PairsAreOneFold DEF PairsNow
  <2> QED BY <2>1 DEF IsPairs
<1>4. p[1] # p[2]
  BY <1>2 DEF Loading, SoundLoads, PairsNow
<1> DEFINE x == p[1]
<1> DEFINE y == p[2]
<1>5. p = <<x, y>> /\ x \in Vertices /\ y \in Vertices /\ x \in Nat /\ y \in Nat
  BY <1>0, <1>3
<1>6. y \in Paired(r)
  BY <1>1, <1>2 DEF Paired, PairsNow
<1>7. my_vertices[r][y] # 0
  <2>1. my_vertices[r][y] = MarkOf(r, y)
    BY <1>0, <1>5, MarksAre DEF Loading, Marked
  <2>2. MarkOf(r, y) # 0
    BY <1>6 DEF MarkOf
  <2> QED BY <2>1, <2>2
<1>8. {x, y} \subseteq MyVertexSet(r)
  BY <1>1, <1>5, <1>7 DEF MyVertexSet
<1> HIDE DEF x, y
<1>9. l = Load(a, "penpair", <<x, y>>, <<N + x, N + y>>, << >>)
  BY <1>0, <1>1, <1>5 DEF AtVertex, x, y
<1>10. VerticesHaveNodes(S, N, a, {x, y})
  BY <1>8 DEF Loading, VerticesHaveNodes
<1>11. x # y
  BY <1>4 DEF x, y
<1>12. \A k \in DOMAIN << >> : ElementThere(r, l, k)
  OBVIOUS
<1> QED BY <1>0, <1>5, <1>9, <1>10, <1>11, <1>12, TwoNodeLoad

LEMMA RiftfrontsResolve ==
  ASSUME NEW r, NEW N, NEW a, NEW S, Loading(r, N, a, S), LoadsAreSound, NEW l \in Riftfronts(r, a)
  PROVE  Resolved(r, l, S) /\ l.kind # "flux"
<1>0. Marked(r) /\ Partitioned /\ N \in Nat /\ nodecounter[r] = N /\ Nv \in Nat /\ Elements = 1..Nel
  BY IoFacts DEF Loading, Marked, Sound
<1>1. PICK f \in Range(setting.rifts) : f.el1 \in my_elements[r]
        /\ l = Load(a, "rift", <<f.node1, f.node2>>, <<AtVertex(r, f.node1), AtVertex(r, f.node2)>>, <<f.el1, f.el2>>)
  BY DEF Riftfronts
<1>2. iomodel.mesh = setting.mesh /\ IsMesh(iomodel.mesh)
  BY <1>0, MeshIsKnown
<1>3. DOMAIN iomodel.mesh.elements = 1..Nel
  BY <1>2, MeshFacts DEF Nel, NumberOfElements
<1>4. /\ f.el1 \in 1..Nel /\ f.el2 \in 1..Nel /\ f.node1 # f.node2
      /\ f.node1 \in Range(iomodel.mesh.elements[f.el1]) /\ f.node2 \in Range(iomodel.mesh.elements[f.el2])
  BY <1>2, <1>3 DEF Loading, SoundLoads
<1>5. Epart(setting)[f.el1] = Epart(setting)[f.el2]
  BY <1>0, EpartIs
<1>6. f.el2 \in my_elements[r]
  BY <1>0, <1>1, <1>4, <1>5 DEF Loading, HasElements
<1>7. ASSUME NEW e \in my_elements[r], NEW v \in Range(iomodel.mesh.elements[e]), e \in 1..Nel
      PROVE  v \in MyVertexSet(r) /\ v \in Nat
  <2>1. DOMAIN iomodel.mesh.elements[e] = 1..Nc
    BY <1>0, <1>7, ElementIs
  <2>2. PICK p \in 1..Nc : v = Place(e, p)
    BY <2>1 DEF Range, Place
  <2>3. v \in MyVertexSet(r)
    BY <1>0, <2>2, MarksCome
  <2>4. v \in 1..Nv
    BY <1>0, <2>3, MineAreThere DEF Marked
  <2> QED BY <1>0, <2>3, <2>4
<1> DEFINE x == f.node1
<1> DEFINE y == f.node2
<1>8. {x, y} \subseteq MyVertexSet(r) /\ x \in Nat /\ y \in Nat /\ x # y
  BY <1>1, <1>4, <1>6, <1>7
<1> DEFINE es == <<f.el1, f.el2>>
<1>9. l = Load(a, "rift", <<x, y>>, <<N + x, N + y>>, es)
  BY <1>0, <1>1 DEF AtVertex
<1>10. \A k \in DOMAIN es : ElementThere(r, l, k)
  <2>1. DOMAIN es = {1, 2} /\ es[1] = f.el1 /\ es[2] = f.el2
    OBVIOUS
  <2>2. l.vertices = <<x, y>> /\ l.elements = es
    BY <1>9 DEF Load
  <2> QED BY <1>1, <1>4, <1>6, <2>1, <2>2 DEF ElementThere
<1> HIDE DEF x, y, es
<1>11. VerticesHaveNodes(S, N, a, {x, y})
  BY <1>8 DEF Loading, VerticesHaveNodes
<1> QED BY <1>0, <1>8, <1>9, <1>10, <1>11, TwoNodeLoad

\* Without pairs, a vertex of the rank is one of its elements.
LEMMA SinglesResolve ==
  ASSUME NEW r, NEW N, NEW a, NEW S, Loading(r, N, a, S), PairsNow = {}, NEW kind, kind # "flux", NEW vs,
         NEW l \in SingleNodeLoads(r, a, kind, vs)
  PROVE  Resolved(r, l, S) /\ l.kind # "flux"
<1>0. Marked(r) /\ Partitioned /\ N \in Nat /\ nodecounter[r] = N /\ Nv \in Nat /\ Nel \in Nat /\ my_elements[r] \subseteq 1..Nel
  BY IoFacts DEF Loading, Marked, Sound, Partitioned
<1>1. PICK v \in vs \cap MyVertexSet(r) : l = Load(a, kind, <<v>>, <<AtVertex(r, v)>>, <<SingleElement(r, v)>>)
  BY DEF SingleNodeLoads
<1>2. v \notin Paired(r)
  BY DEF Paired, PairsNow
<1>3. PICK e \in my_elements[r], p \in 1..Nc : v = Place(e, p)
  BY <1>0, <1>2, MarksCome
<1> DEFINE own == {f \in my_elements[r] : v \in Range(iomodel.mesh.elements[f])}
<1>4. e \in own
  <2>1. p \in DOMAIN iomodel.mesh.elements[e]
    BY <1>0, ElementIs
  <2> QED BY <1>3, <2>1 DEF Range, Place
<1>5. own \in SUBSET Int /\ IsFiniteSet(own)
  <2>1. own \subseteq 1..Nel
    BY <1>0
  <2>2. IsFiniteSet(1..Nel)
    <3>1. 0 \in Int /\ 1 \in Int /\ Nel \in Int
      BY <1>0
    <3> QED BY <3>1, FS_Interval
  <2> HIDE DEF own
  <2>3. IsFiniteSet(own)
    BY <2>1, <2>2, FS_Subset
  <2> QED BY <1>0, <2>1, <2>3
<1>6. \E f \in own : \A g \in own : g <= f
  <2> HIDE DEF own
  <2> QED BY <1>4, <1>5, MaxOfFinite
<1>7. SingleElement(r, v) \in own
  BY <1>4, <1>6 DEF SingleElement
<1> DEFINE f == SingleElement(r, v)
<1>8. f \in my_elements[r] /\ v \in Range(iomodel.mesh.elements[f])
  BY <1>7
<1> HIDE DEF f
<1>9. v \in Nat
  <2>1. v \in 1..Nv
    BY <1>0, <1>1, MineAreThere DEF Marked
  <2> QED BY <1>0, <2>1
<1>10. l = Load(a, kind, <<v>>, <<N + v>>, <<f>>)
  BY <1>0, <1>1 DEF AtVertex, f
<1>11. VerticesHaveNodes(S, N, a, {v})
  BY <1>1 DEF Loading, VerticesHaveNodes
<1> QED BY <1>0, <1>8, <1>9, <1>10, <1>11, OneNodeLoad

-----------------------------------------------------------------------------
(* Fluxes.                                                                 *)
\* The ends of a side are the corners p and q of a triangle, where the rank has nodes.
SideSeen(r, f, e, p, q) ==
  /\ e \in 1..Nel /\ p \in 1..3 /\ q \in 1..3 /\ p # q
  /\ f.v[1] = Place(e, p) /\ f.v[2] = Place(e, q) /\ PlaceOf(f.v[1], e) = p /\ PlaceOf(f.v[2], e) = q
  /\ <<e, p>> \in DiscontinuousNodes(r) /\ <<e, q>> \in DiscontinuousNodes(r)

LEMMA SideNodes ==
  ASSUME NEW r, Marked(r), Kind = "tria", WellOriented(iomodel.mesh), iomodel.mesh.domain = "2Dhorizontal",
         NEW f \in Range(iomodel.faces), f.e1 \in my_elements[r]
  PROVE  /\ f.v = <<f.v[1], f.v[2]>>
         /\ \E p, q : SideSeen(r, f, f.e1, p, q)
         /\ f.e2 # 0 => f.e2 # f.e1 /\ \E p, q : SideSeen(r, f, f.e2, p, q)
<1> DEFINE mesh == iomodel.mesh
<1>0. Sound /\ Partitioned /\ IsMesh(mesh) /\ iomodel.faces = Faces2d(mesh)
  BY MeshIsKnown DEF Marked, Sound
<1>1. f \in SideRecords(mesh)
  <2>1. Faces2d(mesh) \in Seq(SideRecords(mesh))
    BY <1>0, SidesFound
  <2>2. \A S, s : s \in Seq(S) => Range(s) \subseteq S
    BY DEF Range
  <2> QED BY <1>0, <2>1, <2>2
<1>2. DOMAIN mesh.elements = 1..Nel
  BY <1>0, MeshFacts DEF Nel, NumberOfElements
<1>3. f.e1 \in 1..Nel
  BY <1>1, <1>2 DEF SideRecords, SideFields
<1>4. PICK k \in 1..3 : f.v = SidesOf(mesh, f.e1)[k]
  BY <1>1 DEF SideRecords
<1>5. f.v = <<Place(f.e1, k), Place(f.e1, Following(k))>> /\ Following(k) \in 1..3 /\ k # Following(k)
  BY <1>4, SidesAre DEF Following
<1>6. f.v = <<f.v[1], f.v[2]>> /\ f.v[1] = Place(f.e1, k) /\ f.v[2] = Place(f.e1, Following(k))
  BY <1>5
<1>7. SideSeen(r, f, f.e1, k, Following(k))
  <2>1. PlaceOf(f.v[1], f.e1) = k /\ PlaceOf(f.v[2], f.e1) = Following(k)
    BY <1>0, <1>3, <1>5, <1>6, PlaceIsFound
  <2>2. <<f.e1, k>> \in DiscontinuousNodes(r) /\ <<f.e1, Following(k)>> \in DiscontinuousNodes(r)
    BY <1>5 DEF DiscontinuousNodes
  <2> QED BY <1>3, <1>5, <1>6, <2>1, <2>2 DEF SideSeen
<1>8. ASSUME f.e2 # 0
      PROVE  f.e2 # f.e1 /\ \E p, q : SideSeen(r, f, f.e2, p, q)
  <2>1. f.e2 # f.e1
    BY <1>0, TwoSides
  <2>2. f.e2 \in 1..Nel
    BY <1>0, <1>8, <2>1, SecondSide
  <2>3. PICK p \in 1..3 : f.v[2] = Place(f.e2, p) /\ f.v[1] = Place(f.e2, Following(p))
    BY <1>0, <1>8, <2>1, SecondSide
  <2>4. Following(p) \in 1..3 /\ Following(p) # p
    BY DEF Following
  <2>5. PlaceOf(f.v[1], f.e2) = Following(p) /\ PlaceOf(f.v[2], f.e2) = p
    BY <1>0, <2>2, <2>3, <2>4, PlaceIsFound
  <2>6. <<f.e2, Following(p)>> \in DiscontinuousNodes(r) /\ <<f.e2, p>> \in DiscontinuousNodes(r)
    <3>1. CASE f.e2 \in my_elements[r]
      BY <2>4, <3>1 DEF DiscontinuousNodes
    <3>2. CASE f.e2 \notin my_elements[r]
      <4> DEFINE x == PlaceOf(f.v[1], f.e2)
      <4>1. <<f.e2, x>> \in DiscontinuousNodes(r) /\ <<f.e2, IF x = 1 THEN 3 ELSE x - 1>> \in DiscontinuousNodes(r)
        BY <1>8, <3>2 DEF DiscontinuousNodes
      <4>2. x = Following(p)
        BY <2>5
      <4> HIDE DEF x
      <4>3. (IF x = 1 THEN 3 ELSE x - 1) = p
        BY <4>2 DEF Following
      <4> QED BY <4>1, <4>2, <4>3
    <3> QED BY <3>1, <3>2
  <2>7. SideSeen(r, f, f.e2, Following(p), p)
    BY <2>2, <2>3, <2>4, <2>5, <2>6 DEF SideSeen
  <2> QED BY <2>1, <2>7
<1> QED BY <1>6, <1>7, <1>8

CornersHaveNodes(r, S, N, a) ==
  \A e \in 1..Nel, p \in 1..3 : <<e, p>> \in DiscontinuousNodes(r) => CornerNodeThere(S, N, a, e, p)
CornerId(N, e, p) == N + (3 * (e - 1) + p)

LEMMA CornerIdsDiffer ==
  ASSUME NEW N \in Nat, Nel \in Nat, NEW e \in 1..Nel, NEW f \in 1..Nel, NEW p \in 1..3, NEW q \in 1..3,
         CornerId(N, e, p) = CornerId(N, f, q)
  PROVE  e = f /\ p = q
<1>1. 3 * (e - 1) + p = 3 * (f - 1) + q
  BY DEF CornerId
<1>2. 3 \in Nat
  OBVIOUS
<1> QED BY <1>1, <1>2, StrideInjective

LEMMA FluxNodeThere ==
  ASSUME NEW r, NEW S, NEW N, NEW a, CornersHaveNodes(r, S, N, a), NEW f, NEW e, NEW p, NEW q, SideSeen(r, f, e, p, q),
         NEW l, NEW k, l.analysis = a.name
  PROVE  /\ l.nodes[k] = CornerId(N, e, p) /\ l.vertices[k] = f.v[1] => NodeThere(S, l, k)
         /\ l.nodes[k] = CornerId(N, e, q) /\ l.vertices[k] = f.v[2] => NodeThere(S, l, k)
<1>1. /\ e \in 1..Nel /\ p \in 1..3 /\ q \in 1..3 /\ <<e, p>> \in DiscontinuousNodes(r) /\ <<e, q>> \in DiscontinuousNodes(r)
      /\ f.v[1] = Place(e, p) /\ f.v[2] = Place(e, q)
  BY DEF SideSeen
<1>2. CornerNodeThere(S, N, a, e, p) /\ CornerNodeThere(S, N, a, e, q)
  BY <1>1 DEF CornersHaveNodes
<1>3. PICK n \in S : n.id = CornerId(N, e, p) /\ n.analysis = a.name /\ n.vertex = f.v[1]
  BY <1>1, <1>2 DEF CornerNodeThere, CornerId
<1>4. PICK m \in S : m.id = CornerId(N, e, q) /\ m.analysis = a.name /\ m.vertex = f.v[2]
  BY <1>1, <1>2 DEF CornerNodeThere, CornerId
<1>5. l.nodes[k] = CornerId(N, e, p) /\ l.vertices[k] = f.v[1] => NodeThere(S, l, k)
  BY <1>3 DEF NodeThere
<1>6. l.nodes[k] = CornerId(N, e, q) /\ l.vertices[k] = f.v[2] => NodeThere(S, l, k)
  BY <1>4 DEF NodeThere
<1> QED BY <1>5, <1>6

\* A flux at the edge of the domain.
LEMMA OneSidedFlux ==
  ASSUME NEW r, Marked(r), Kind = "tria", NEW S, NEW N \in Nat, NEW a, CornersHaveNodes(r, S, N, a),
         NEW f, f.e1 \in my_elements[r], f.v = <<f.v[1], f.v[2]>>, NEW p, NEW q, SideSeen(r, f, f.e1, p, q),
         NEW l, l = Load(a, "flux", f.v, <<CornerId(N, f.e1, p), CornerId(N, f.e1, q)>>, <<f.e1>>)
  PROVE  Resolved(r, l, S) /\ Range(f.v) = Range(l.vertices)
<1> DEFINE e == f.e1
<1> DEFINE ns == <<CornerId(N, e, p), CornerId(N, e, q)>>
<1>1. l.analysis = a.name /\ l.kind = "flux" /\ l.vertices = f.v /\ l.nodes = ns /\ l.elements = <<e>>
  BY DEF Load
<1>2. e \in 1..Nel /\ p \in 1..3 /\ q \in 1..3 /\ p # q /\ f.v[1] = Place(e, p)
  BY DEF SideSeen
<1>3. ns[1] = CornerId(N, e, p) /\ ns[2] = CornerId(N, e, q) /\ DOMAIN ns = {1, 2} /\ Len(ns) = 2
      /\ Range(ns) = {CornerId(N, e, p), CornerId(N, e, q)}
  BY DEF Range
<1> HIDE DEF ns
<1>4. NodeThere(S, l, 1) /\ NodeThere(S, l, 2)
  BY <1>1, <1>3, FluxNodeThere
<1>5. Nel \in Nat /\ Nc = 3
  BY IoFacts DEF Marked, Sound, Nc
<1>6. CornerId(N, e, p) # CornerId(N, e, q)
  BY <1>2, <1>5, CornerIdsDiffer
<1>7. Cardinality(Range(ns)) = Len(ns)
  <2>1. \A c, d : c # d => Cardinality({c, d}) = 2
    BY TwoElements
  <2>2. Cardinality({CornerId(N, e, p), CornerId(N, e, q)}) = 2
    BY <1>6, <2>1
  <2> QED BY <1>3, <2>2
<1>8. DOMAIN l.elements = {1} /\ l.elements[1] = e /\ l.vertices[1] = f.v[1]
  BY <1>1
<1>9. f.v[1] \in Range(iomodel.mesh.elements[e])
  <2>1. p \in DOMAIN iomodel.mesh.elements[e]
    BY <1>2, <1>5, ElementIs DEF Marked, Sound
  <2> QED BY <1>2, <2>1 DEF Range, Place
<1>10. ElementThere(r, l, 1)
  BY <1>8, <1>9 DEF ElementThere
<1> QED BY <1>1, <1>3, <1>4, <1>7, <1>8, <1>10 DEF Resolved

LEMMA TwiceOver ==
  ASSUME NEW x, NEW y, NEW s, s = <<x, y>>
  PROVE  s \o s = <<x, y, x, y>>
<1> DEFINE R == {x, y}
<1> DEFINE t == <<x, y, x, y>>
<1>1. s \in Seq(R) /\ Len(s) = 2 /\ s[1] = x /\ s[2] = y
  OBVIOUS
<1>2. t \in [1..4 -> R] /\ t[1] = x /\ t[2] = y /\ t[3] = x /\ t[4] = y
  OBVIOUS
<1> HIDE DEF R, t
<1>3. s \o s \in Seq(R) /\ Len(s \o s) = 4 /\ \A k \in 1..4 : (s \o s)[k] = IF k <= 2 THEN s[k] ELSE s[k - 2]
  BY <1>1, ConcatProperties
<1>4. s \o s \in [1..4 -> R]
  <2> DEFINE c == s \o s
  <2>1. c \in Seq(R) /\ Len(c) = 4
    BY <1>3
  <2> HIDE DEF c
  <2>2. c \in [1..4 -> R]
    BY <2>1, LenProperties
  <2> QED BY <2>2 DEF c
<1>5. (s \o s)[1] = x /\ (s \o s)[2] = y /\ (s \o s)[3] = x /\ (s \o s)[4] = y
  BY <1>1, <1>3
<1>6. \A k \in 1..4 : k = 1 \/ k = 2 \/ k = 3 \/ k = 4
  OBVIOUS
<1>7. \A k \in 1..4 : (s \o s)[k] = t[k]
  BY <1>2, <1>5, <1>6
<1>8. s \o s = t
  BY <1>2, <1>4, <1>7
<1> QED BY <1>8 DEF t

\* And one between two elements.
InnerFlux(r, N, a, f, p, q, u, w, l) ==
  /\ f.e1 \in my_elements[r] /\ f.v = <<f.v[1], f.v[2]>> /\ f.e2 # f.e1
  /\ SideSeen(r, f, f.e1, p, q) /\ SideSeen(r, f, f.e2, u, w)
  /\ l = Load(a, "flux", f.v \o f.v, <<CornerId(N, f.e1, p), CornerId(N, f.e1, q),
                                       CornerId(N, f.e2, u), CornerId(N, f.e2, w)>>, <<f.e1>>)

LEMMA FourIds ==
  ASSUME NEW x, NEW y, NEW z, NEW t, x # y, x # z, y # z, t # x, t # y, t # z, NEW s, s = <<x, y, z, t>>
  PROVE  Cardinality(Range(s)) = Len(s)
<1>1. Range(s) = {x, y, z, t} /\ Len(s) = 4
  BY DEF Range
<1>2. Cardinality({x, y, z, t}) = 4
  BY FourElements
<1> QED BY <1>1, <1>2

LEMMA TwoSidedFlux ==
  ASSUME NEW r, Marked(r), Kind = "tria", NEW S, NEW N \in Nat, NEW a, CornersHaveNodes(r, S, N, a),
         NEW f, NEW p, NEW q, NEW u, NEW w, NEW l, InnerFlux(r, N, a, f, p, q, u, w, l)
  PROVE  Resolved(r, l, S) /\ Range(f.v) = Range(l.vertices)
<1> DEFINE e == f.e1
<1> DEFINE g == f.e2
<1> DEFINE x == f.v[1]
<1> DEFINE y == f.v[2]
<1> DEFINE ns == <<CornerId(N, e, p), CornerId(N, e, q), CornerId(N, g, u), CornerId(N, g, w)>>
<1>0. f.v \o f.v = <<x, y, x, y>>
  <2>1. f.v = <<x, y>>
    BY DEF InnerFlux
  <2> QED BY <2>1, TwiceOver
<1>1. l.analysis = a.name /\ l.kind = "flux" /\ l.vertices = <<x, y, x, y>> /\ l.nodes = ns /\ l.elements = <<e>>
  BY <1>0 DEF Load, InnerFlux
<1>2. /\ e \in 1..Nel /\ p \in 1..3 /\ q \in 1..3 /\ p # q /\ f.v[1] = Place(e, p)
      /\ g \in 1..Nel /\ u \in 1..3 /\ w \in 1..3 /\ u # w /\ e # g
      /\ SideSeen(r, f, e, p, q) /\ SideSeen(r, f, g, u, w) /\ e \in my_elements[r]
  BY DEF SideSeen, InnerFlux
<1>3. /\ ns[1] = CornerId(N, e, p) /\ ns[2] = CornerId(N, e, q) /\ ns[3] = CornerId(N, g, u) /\ ns[4] = CornerId(N, g, w)
      /\ DOMAIN ns = {1, 2, 3, 4} /\ Len(ns) = 4
      /\ Range(ns) = {CornerId(N, e, p), CornerId(N, e, q), CornerId(N, g, u), CornerId(N, g, w)}
  BY DEF Range
<1>11. l.vertices[1] = x /\ l.vertices[2] = y /\ l.vertices[3] = x /\ l.vertices[4] = y /\ Range(l.vertices) = {x, y}
  BY <1>1 DEF Range
<1>12. Range(f.v) = {x, y}
  <2>1. \A c, d : Range(<<c, d>>) = {c, d}
    BY DEF Range
  <2>2. f.v = <<x, y>>
    BY DEF InnerFlux
  <2> QED BY <2>1, <2>2
<1> HIDE DEF ns
<1>4. NodeThere(S, l, 1) /\ NodeThere(S, l, 2)
  BY <1>1, <1>2, <1>3, <1>11, FluxNodeThere
<1>13. NodeThere(S, l, 3) /\ NodeThere(S, l, 4)
  BY <1>1, <1>2, <1>3, <1>11, FluxNodeThere
<1>5. Nel \in Nat /\ Nc = 3
  BY IoFacts DEF Marked, Sound, Nc
<1>6. \A b, d \in 1..Nel : \A i, j \in 1..3 : CornerId(N, b, i) = CornerId(N, d, j) => b = d /\ i = j
  BY <1>5, CornerIdsDiffer
<1>7. Cardinality(Range(ns)) = Len(ns)
  <2>1. /\ CornerId(N, e, p) # CornerId(N, e, q) /\ CornerId(N, g, u) # CornerId(N, g, w)
        /\ CornerId(N, e, p) # CornerId(N, g, u) /\ CornerId(N, e, p) # CornerId(N, g, w)
        /\ CornerId(N, e, q) # CornerId(N, g, u) /\ CornerId(N, e, q) # CornerId(N, g, w)
    BY <1>2, <1>6
  <2> HIDE DEF e, g
  <2>2. PICK s : s = ns
    OBVIOUS
  <2>3. s = <<CornerId(N, e, p), CornerId(N, e, q), CornerId(N, g, u), CornerId(N, g, w)>>
    BY <2>2 DEF ns
  <2>4. Cardinality(Range(s)) = Len(s)
    BY <2>1, <2>3, FourIds
  <2> QED BY <2>2, <2>4
<1>8. DOMAIN l.elements = {1} /\ l.elements[1] = e /\ l.vertices[1] = f.v[1]
  BY <1>1
<1>9. f.v[1] \in Range(iomodel.mesh.elements[e])
  <2>1. p \in DOMAIN iomodel.mesh.elements[e]
    BY <1>2, <1>5, ElementIs DEF Marked, Sound
  <2> QED BY <1>2, <2>1 DEF Range, Place
<1>10. ElementThere(r, l, 1)
  BY <1>2, <1>8, <1>9 DEF ElementThere
<1> QED BY <1>1, <1>3, <1>4, <1>7, <1>8, <1>10, <1>11, <1>12, <1>13 DEF Resolved

\* A flux has its nodes, and each side whose first element is the rank's has one.
FluxFor(f, l) == l.kind = "flux" /\ Range(f.v) = Range(l.vertices)

LEMMA FluxesHaveNodes ==
  ASSUME NEW r, Marked(r), Kind = "tria", WellOriented(iomodel.mesh), iomodel.mesh.domain = "2Dhorizontal",
         NEW S, NEW N \in Nat, nodecounter[r] = N, NEW a, CornersHaveNodes(r, S, N, a)
  PROVE  /\ \A l \in Numericalfluxes(r, a) : Resolved(r, l, S)
         /\ \A f \in Range(iomodel.faces) : f.e1 \in my_elements[r] => \E l \in Numericalfluxes(r, a) : FluxFor(f, l)
<1> DEFINE NodeOf(e, v) == nodecounter[r] + 3 * (e - 1) + PlaceOf(v, e)
<1> DEFINE Flux(f) == IF f.e2 = 0
                   THEN Load(a, "flux", f.v, <<NodeOf(f.e1, f.v[1]), NodeOf(f.e1, f.v[2])>>, <<f.e1>>)
                   ELSE Load(a, "flux", f.v \o f.v,
                             <<NodeOf(f.e1, f.v[1]), NodeOf(f.e1, f.v[2]),
                               NodeOf(f.e2, f.v[1]), NodeOf(f.e2, f.v[2])>>, <<f.e1>>)
<1>1. Numericalfluxes(r, a) = {Flux(f) : f \in {g \in Range(iomodel.faces) : g.e1 \in my_elements[r]}}
  BY DEF Numericalfluxes
<1>2. Nel \in Nat
  BY IoFacts DEF Marked, Sound
<1>3. ASSUME NEW f, NEW e, NEW p, NEW q, SideSeen(r, f, e, p, q)
      PROVE  NodeOf(e, f.v[1]) = CornerId(N, e, p) /\ NodeOf(e, f.v[2]) = CornerId(N, e, q)
  <2>1. e \in 1..Nel /\ p \in 1..3 /\ q \in 1..3 /\ PlaceOf(f.v[1], e) = p /\ PlaceOf(f.v[2], e) = q
    BY <1>3 DEF SideSeen
  <2> QED BY <1>2, <2>1 DEF CornerId
<1>4. ASSUME NEW f \in Range(iomodel.faces), f.e1 \in my_elements[r]
      PROVE  Resolved(r, Flux(f), S) /\ FluxFor(f, Flux(f))
  <2>1. f.v = <<f.v[1], f.v[2]>> /\ (f.e2 # 0 => f.e2 # f.e1)
    BY <1>4, SideNodes
  <2>2. PICK p, q : SideSeen(r, f, f.e1, p, q)
    BY <1>4, SideNodes
  <2>3. NodeOf(f.e1, f.v[1]) = CornerId(N, f.e1, p) /\ NodeOf(f.e1, f.v[2]) = CornerId(N, f.e1, q)
    BY <1>3, <2>2
  <2>4. Flux(f).kind = "flux"
    BY DEF Load
  <2>5. CASE f.e2 = 0
    <3>1. Flux(f) = Load(a, "flux", f.v, <<CornerId(N, f.e1, p), CornerId(N, f.e1, q)>>, <<f.e1>>)
      BY <2>3, <2>5
    <3> HIDE DEF Flux
    <3>2. Resolved(r, Flux(f), S) /\ Range(f.v) = Range(Flux(f).vertices)
      BY <1>4, <2>1, <2>2, <3>1, OneSidedFlux
    <3> QED BY <2>4, <3>2 DEF FluxFor
  <2>6. CASE f.e2 # 0
    <3>1. PICK u, w : SideSeen(r, f, f.e2, u, w)
      BY <1>4, <2>6, SideNodes
    <3>2. NodeOf(f.e2, f.v[1]) = CornerId(N, f.e2, u) /\ NodeOf(f.e2, f.v[2]) = CornerId(N, f.e2, w)
      BY <1>3, <3>1
    <3>3. Flux(f) = Load(a, "flux", f.v \o f.v, <<CornerId(N, f.e1, p), CornerId(N, f.e1, q),
                                                 CornerId(N, f.e2, u), CornerId(N, f.e2, w)>>, <<f.e1>>)
      BY <2>3, <2>6, <3>2
    <3> HIDE DEF Flux
    <3>5. PICK l : l = Flux(f)
      OBVIOUS
    <3>6. InnerFlux(r, N, a, f, p, q, u, w, l)
      BY <1>4, <2>1, <2>2, <2>6, <3>1, <3>3, <3>5, Zenon DEF InnerFlux
    <3>8. Resolved(r, l, S) /\ Range(f.v) = Range(l.vertices)
      BY <3>6, TwoSidedFlux
    <3>4. Resolved(r, Flux(f), S) /\ Range(f.v) = Range(Flux(f).vertices)
      BY <3>5, <3>8
    <3> QED BY <2>4, <3>4 DEF FluxFor
  <2> QED BY <2>5, <2>6
<1> HIDE DEF Flux
<1> QED BY <1>1, <1>4

\* A rank that creates the nodes and loads of an analysis.
Creator(r, B, c, N, a, new) ==
  /\ NodesInv /\ r \in Ranks /\ Creates(r, B, c, N, a, new) /\ HasElements(r)
  /\ my_vertices[r] = MyVertices(my_elements[r])
  /\ ModelsAreSound /\ PairsComeInTurn /\ LoadsAreSound

LEMMA CreatorFacts ==
  ASSUME NEW r, NEW B, NEW c, NEW N, NEW a, NEW new, Creator(r, B, c, N, a, new)
  PROVE  /\ Marked(r) /\ N \in Nat /\ nodecounter[r] = N /\ AnalysisIs(a) /\ SoundLoads(setting)
         /\ c \in Analyses /\ a = setting.analyses[c]
         /\ a.name \in {"Stressbalance", "Masstransport", "Thermal", "Melting", "HydrologyDCInefficient"}
         /\ \A fe : Works(c, a, fe) => Makes(N, a, fe, new, Created(r, fe)) /\ Creating(r, N, a, fe)
<1>1. Partitioned /\ Creates(r, B, c, N, a, new) /\ r \in Ranks
  BY DEF Creator, NodesInv
<1>2. c \in Analyses /\ N = nodecounter[r] /\ N \in Nat /\ a = setting.analyses[c] /\ AnalysisIs(a)
  BY <1>1 DEF Creates
<1>3. Sound
  BY <1>1, ModelIsSound DEF Creator
<1>4. Marked(r)
  BY <1>1, <1>3 DEF Marked, Creator
<1>5. SoundLoads(setting)
  BY <1>1 DEF Creator, LoadsAreSound, Partitioned
<1>6. a.name \in {"Stressbalance", "Masstransport", "Thermal", "Melting", "HydrologyDCInefficient"}
  BY <1>1, <1>2, AnalysisNamed
<1>7. \A fe : Works(c, a, fe) => Makes(N, a, fe, new, Created(r, fe)) /\ Creating(r, N, a, fe)
  BY <1>1, NewNodesMade DEF Creator
<1> QED BY <1>2, <1>4, <1>5, <1>6, <1>7

\* The loads find their nodes among the new ones.
LEMMA FluxLoadsCreated ==
  ASSUME NEW r, NEW B, NEW c, NEW N, NEW a, NEW new, Creator(r, B, c, N, a, new), TakesFluxes(a)
  PROVE  /\ \A l \in CreateLoads(r, a) : Resolved(r, l, Range(new))
         /\ \A f \in Range(iomodel.faces) : f.e1 \in my_elements[r] => \E l \in CreateLoads(r, a) : FluxFor(f, l)
<1> DEFINE S == Range(new)
<1>1. /\ Marked(r) /\ N \in Nat /\ nodecounter[r] = N /\ AnalysisIs(a) /\ SoundLoads(setting)
      /\ c \in Analyses /\ a = setting.analyses[c]
  BY CreatorFacts
<1>2. a.name = "Masstransport" /\ a.stabilization = 3 /\ FiniteElement(a) = "P1DG" /\ IsSolved(a)
  BY <1>1, FluxesTaken DEF TakesFluxes, IsSolved
<1>3. Works(c, a, "P1DG")
  BY <1>1, <1>2 DEF Works
<1>4. Makes(N, a, "P1DG", new, Created(r, "P1DG")) /\ Creating(r, N, a, "P1DG")
  BY <1>3, CreatorFacts
<1>5. Kind = "tria"
  BY <1>4, ElementKinds
<1>6. Partitioned /\ WellOriented(iomodel.mesh) /\ iomodel.mesh = setting.mesh
  BY <1>1, <1>5, ModelIsSound, MeshIsKnown DEF Creator, Marked, Sound
<1>7. iomodel.mesh.domain = "2Dhorizontal" /\ setting.pairing.masstransport = << >>
  BY <1>1, <1>2, <1>6 DEF SoundLoads, Analyses
<1>8. CornersHaveNodes(r, S, N, a)
  BY <1>1, <1>4, <1>5, CornerNodesMade DEF CornersHaveNodes
<1>9. CreateLoads(r, a) = Numericalfluxes(r, a)
  <2>1. CreateLoads(r, a) = Numericalfluxes(r, a) \cup Penpairs(r, a, OnBed(Range(setting.pairing.masstransport)))
    BY <1>2 DEF CreateLoads
  <2>2. Range(setting.pairing.masstransport) = {}
    BY <1>7 DEF Range
  <2>3. Penpairs(r, a, OnBed({})) = {}
    BY DEF Penpairs, OnBed
  <2> QED BY <2>1, <2>2, <2>3
<1> HIDE DEF S
<1>10. /\ \A l \in Numericalfluxes(r, a) : Resolved(r, l, S)
       /\ \A f \in Range(iomodel.faces) : f.e1 \in my_elements[r] => \E l \in Numericalfluxes(r, a) : FluxFor(f, l)
  BY <1>1, <1>5, <1>6, <1>7, <1>8, FluxesHaveNodes
<1> QED BY <1>9, <1>10 DEF S

LEMMA VertexLoadsCreated ==
  ASSUME NEW r, NEW B, NEW c, NEW N, NEW a, NEW new, Creator(r, B, c, N, a, new), ~TakesFluxes(a),
         NEW l \in CreateLoads(r, a)
  PROVE  Resolved(r, l, Range(new)) /\ l.kind # "flux"
<1> DEFINE S == Range(new)
<1>1. /\ Marked(r) /\ N \in Nat /\ nodecounter[r] = N /\ AnalysisIs(a) /\ SoundLoads(setting)
      /\ c \in Analyses /\ a = setting.analyses[c]
  BY CreatorFacts
<1>2. IsSolved(a)
  <2>1. ~IsSolved(a) => CreateLoads(r, a) = {}
    BY DEF IsSolved, CreateLoads
  <2> QED BY <2>1
<1>3. PICK fe : fe = FiniteElement(a)
  OBVIOUS
<1>4. fe # "P1DG" /\ Works(c, a, fe)
  BY <1>1, <1>2, <1>3, FluxesTaken DEF Works
<1>5. Makes(N, a, fe, new, Created(r, fe))
  BY <1>4, CreatorFacts
<1>6. VerticesHaveNodes(S, N, a, MyVertexSet(r))
  BY <1>1, <1>4, <1>5, VertexNodesMade
<1>7. Loading(r, N, a, S)
  BY <1>1, <1>6 DEF Loading, Creator
<1>8. LoadsAreSound
  BY DEF Creator
<1> HIDE DEF S
<1>9. CASE a.name = "Stressbalance"
  <2>1. CreateLoads(r, a) = Penpairs(r, a, Range(setting.pairing.stressbalance)) \cup Riftfronts(r, a)
    BY <1>2, <1>9 DEF CreateLoads
  <2>2. CASE l \in Penpairs(r, a, Range(setting.pairing.stressbalance))
    <3>1. Range(setting.pairing.stressbalance) \in SUBSET PairsNow
      BY DEF PairsNow
    <3> QED BY <1>7, <2>2, <3>1, PenpairsResolve DEF S
  <2>3. CASE l \in Riftfronts(r, a)
    BY <1>7, <1>8, <2>3, RiftfrontsResolve DEF S
  <2> QED BY <2>1, <2>2, <2>3
<1>10. CASE a.name = "Masstransport"
  <2>1. a.stabilization # 3
    BY <1>10 DEF TakesFluxes
  <2>2. CreateLoads(r, a) = Penpairs(r, a, OnBed(Range(setting.pairing.masstransport)))
    BY <1>10, <2>1 DEF CreateLoads
  <2>3. OnBed(Range(setting.pairing.masstransport)) \in SUBSET PairsNow
    BY DEF PairsNow, OnBed
  <2> QED BY <1>7, <2>2, <2>3, PenpairsResolve DEF S
<1>11. CASE a.name \in {"Thermal", "Melting", "HydrologyDCInefficient"}
  <2>1. PairsNow = {}
    BY <1>1, <1>11 DEF SoundLoads, Analyses, PairsNow
  <2>2. \E kind, vs : kind # "flux" /\ l \in SingleNodeLoads(r, a, kind, vs)
    <3>1. CASE a.name = "Thermal"
      <4>1. CreateLoads(r, a) = SingleNodeLoads(r, a, "pengrid", {v \in Vertices : 0 \notin setting.spc.at[v]})
        BY <3>1 DEF CreateLoads
      <4> QED BY <4>1
    <3>2. CASE a.name = "Melting"
      <4>1. CreateLoads(r, a) = SingleNodeLoads(r, a, "pengrid", iomodel.mesh.onbase)
        BY <3>2 DEF CreateLoads
      <4> QED BY <4>1
    <3>3. CASE a.name = "HydrologyDCInefficient"
      <4> DEFINE bed == IF iomodel.mesh.domain = "3D" THEN iomodel.mesh.onbase ELSE Vertices
      <4>1. CreateLoads(r, a) = SingleNodeLoads(r, a, "pengrid", bed) \cup SingleNodeLoads(r, a, "moulin", bed)
        BY <3>3 DEF CreateLoads
      <4> HIDE DEF bed
      <4>2. CASE l \in SingleNodeLoads(r, a, "pengrid", bed)
        BY <4>2
      <4>3. CASE l \in SingleNodeLoads(r, a, "moulin", bed)
        BY <4>3
      <4> QED BY <4>1, <4>2, <4>3
    <3> QED BY <1>11, <3>1, <3>2, <3>3
  <2>3. PICK kind, vs : kind # "flux" /\ l \in SingleNodeLoads(r, a, kind, vs)
    BY <2>2
  <2> QED BY <1>7, <2>1, <2>3, SinglesResolve DEF S
<1>12. a.name \in {"Stressbalance", "Masstransport", "Thermal", "Melting", "HydrologyDCInefficient"}
  BY CreatorFacts
<1> QED BY <1>9, <1>10, <1>11, <1>12

-----------------------------------------------------------------------------
(***************************************************************************)
(* The inductive invariant of the loads: those that a rank has are         *)
(* resolved already, by the nodes it has; and once it has made an analysis *)
(* with fluxes, each side that starts at an element of it has one.         *)
(***************************************************************************)
RankLoads(r) ==
  /\ pc[r] = "partition" => loads[r] = {}
  /\ pc[r] # "partition" => HasElements(r)
  /\ \A l \in loads[r] : Resolved(r, l, Range(nodes[r]))
  /\ \A l \in loads[r] : l.kind = "flux" => \E i \in Analyses : TakesFluxes(setting.analyses[i])
  /\ \A i \in Analyses : HasMade(r, i) /\ TakesFluxes(setting.analyses[i]) =>
       \A f \in Range(iomodel.faces) : f.e1 \in my_elements[r] => \E l \in loads[r] : FluxFor(f, l)

LoadsInv == \A r \in Ranks : RankLoads(r)

\* More nodes do no harm.
LEMMA ResolvedAfter ==
  ASSUME NEW r, Stays(r), NEW l, NEW S, NEW T, S \subseteq T, Resolved(r, l, S)
  PROVE  Resolved(r, l, T)'
<1>1. \A k : NodeThere(S, l, k) => NodeThere(T, l, k)
  BY DEF NodeThere
<1>2. \A k : ElementThere(r, l, k)' <=> ElementThere(r, l, k)
  BY DEF ElementThere, Stays
<1> QED BY <1>1, <1>2 DEF Resolved

LEMMA ElementsStay ==
  ASSUME NEW r, Stays(r)
  PROVE  HasElements(r)' <=> HasElements(r)
<1>1. Elements' = Elements
  BY DEF Stays, Elements, NumberOfElements
<1>2. Epart(setting)' = Epart(setting)
  BY DEF Stays
<1> QED BY <1>1, <1>2 DEF HasElements, Stays

\* A rank that creates nothing, and has not finished an analysis that it had not.
LoadsRest(q) ==
  /\ Stays(q) /\ nodes'[q] = nodes[q] /\ loads'[q] = loads[q]
  /\ pc'[q] = "partition" <=> pc[q] = "partition"
  /\ \A i \in Analyses : HasMade(q, i)' => HasMade(q, i)

LEMMA LoadsStay ==
  ASSUME NEW q, LoadsRest(q), RankLoads(q)
  PROVE  RankLoads(q)'
<1>0. /\ Stays(q) /\ nodes'[q] = nodes[q] /\ loads'[q] = loads[q] /\ setting' = setting /\ iomodel' = iomodel
      /\ my_elements'[q] = my_elements[q]
      /\ pc'[q] = "partition" <=> pc[q] = "partition"
      /\ \A i \in Analyses : HasMade(q, i)' => HasMade(q, i)
  BY DEF LoadsRest, Stays
<1>1. Analyses' = Analyses
  BY <1>0 DEF Analyses
<1>2. PICK S : S = Range(nodes[q])
  OBVIOUS
<1>3. S = Range(nodes[q])'
  BY <1>0, <1>2 DEF Range
<1>4. \A l \in loads[q] : Resolved(q, l, S)'
  BY <1>0, <1>2, ResolvedAfter DEF RankLoads
<1>5. (\A l \in loads[q] : Resolved(q, l, Range(nodes[q])))'
  <2> SUFFICES ASSUME NEW l \in loads'[q] PROVE Resolved(q, l, Range(nodes[q]))'
    OBVIOUS
  <2>1. Resolved(q, l, S)'
    BY <1>0, <1>4
  <2> QED BY <1>3, <2>1 DEF Resolved, NodeThere
<1>6. pc'[q] # "partition" => HasElements(q)'
  BY <1>0, ElementsStay DEF RankLoads
<1>7. pc'[q] = "partition" => loads'[q] = {}
  BY <1>0 DEF RankLoads
<1>8. \A l \in loads'[q] : l.kind = "flux" => \E i \in Analyses' : TakesFluxes(setting'.analyses[i])
  BY <1>0, <1>1 DEF RankLoads
<1>9. \A i \in Analyses' : HasMade(q, i)' /\ TakesFluxes(setting'.analyses[i]) =>
        \A f \in Range(iomodel'.faces) : f.e1 \in my_elements'[q] => \E l \in loads'[q] : FluxFor(f, l)
  BY <1>0, <1>1 DEF RankLoads, Range
<1> QED BY <1>5, <1>6, <1>7, <1>8, <1>9 DEF RankLoads

LEMMA InitLoads ==
  ASSUME Init
  PROVE  LoadsInv
<1> SUFFICES ASSUME NEW r \in Ranks PROVE RankLoads(r)
  BY DEF LoadsInv
<1>1. Partitioned /\ Ranked
  BY InitNodes DEF NodesInv
<1>2. pc[r] = "partition" /\ current[r] = 1 /\ loads[r] = {}
  BY DEF Init
<1>3. \A i \in Analyses : ~HasMade(r, i)
  BY <1>1, <1>2, MadeUpTo
<1> QED BY <1>2, <1>3 DEF RankLoads

LEMMA PartitionLoads ==
  ASSUME NodesInv, Dated, NEW r \in Ranks, ElementsAndVerticesPartitioning(r), NEW B, RankInv(B, r), RankLoads(r)
  PROVE  RankLoads(r)'
<1>0. Partitioned /\ Ranked /\ DOMAIN pc = Ranks /\ DOMAIN my_elements = Ranks
  BY DEF NodesInv, Ranked
<1> DEFINE mine == {e \in Elements : Epart(setting)[e] = r}
<1>1. /\ pc[r] = "partition" /\ pc'[r] = "datasets" /\ current' = current /\ loads' = loads /\ setting' = setting
      /\ iomodel' = iomodel /\ my_elements'[r] = mine
  BY <1>0 DEF ElementsAndVerticesPartitioning
<1>2. current[r] = 1
  BY <1>1 DEF RankInv, RankAt
<1>3. Analyses' = Analyses /\ Elements' = Elements
  BY <1>1 DEF Analyses, Elements, NumberOfElements
<1>4. \A i \in Analyses : ~HasMade(r, i)'
  <2> SUFFICES ASSUME NEW i \in Analyses PROVE ~HasMade(r, i)'
    OBVIOUS
  <2>1. i \in Int /\ i >= 1
    BY <1>0, MadeUpTo
  <2> QED BY <1>1, <1>2, <2>1 DEF HasMade
<1>5. loads'[r] = {}
  BY <1>1 DEF RankLoads
<1>6. HasElements(r)'
  <2>1. Epart(setting)' = Epart(setting)
    BY <1>1
  <2> QED BY <1>1, <1>3, <2>1 DEF HasElements
<1>7. pc'[r] # "partition"
  BY <1>1
<1> QED BY <1>3, <1>4, <1>5, <1>6, <1>7 DEF RankLoads

LEMMA CreateLoadsInv ==
  ASSUME NodesInv, MarksInv, Dated, ModelsAreSound, PairsComeInTurn, LoadsAreSound,
         NEW r \in Ranks, CreateDatasets(r), NEW B, RankInv(B, r), RankLoads(r)
  PROVE  RankLoads(r)'
<1>1. PICK c, N, a, new : Creates(r, B, c, N, a, new)
  BY CreatesWhat
<1>2. pc[r] = "datasets"
  BY DEF CreateDatasets
<1>3. Creator(r, B, c, N, a, new)
  BY <1>1, <1>2 DEF Creator, MarksInv, RankLoads
<1>4. /\ c \in Analyses /\ a = setting.analyses[c] /\ Stays(r) /\ pc'[r] = "counters"
      /\ loads'[r] = loads[r] \cup CreateLoads(r, a) /\ setting' = setting /\ iomodel' = iomodel
      /\ my_elements'[r] = my_elements[r]
      /\ \A i \in Analyses : HasMade(r, i)' <=> HasMade(r, i) \/ i = c
  BY <1>1 DEF Creates, Stays
<1>5. PICK S, T, U : S = Range(nodes[r]) /\ T = Range(new) /\ U = S \cup T
  OBVIOUS
<1>6. Range(nodes[r])' = U
  <2>1. Range(nodes'[r]) = Range(nodes[r]) \cup Range(new)
    BY <1>1, CreatedRises
  <2> QED BY <1>5, <2>1 DEF Range
<1>7. \A l \in CreateLoads(r, a) : Resolved(r, l, T) /\ (l.kind = "flux" => TakesFluxes(a))
  BY <1>3, <1>5, FluxLoadsCreated, VertexLoadsCreated
<1>8. Analyses' = Analyses
  BY <1>4 DEF Analyses
<1>9. ASSUME NEW l \in loads'[r]
      PROVE  /\ Resolved(r, l, Range(nodes[r]))'
             /\ l.kind = "flux" => \E i \in Analyses' : TakesFluxes(setting'.analyses[i])
  <2>1. Resolved(r, l, U)'
    <3>1. CASE l \in loads[r]
      <4>1. Resolved(r, l, S) /\ S \subseteq U
        BY <1>5, <3>1 DEF RankLoads
      <4> QED BY <1>4, <4>1, ResolvedAfter
    <3>2. CASE l \in CreateLoads(r, a)
      <4>1. Resolved(r, l, T) /\ T \subseteq U
        BY <1>5, <1>7, <3>2
      <4> QED BY <1>4, <4>1, ResolvedAfter
    <3> QED BY <1>4, <3>1, <3>2
  <2>2. Resolved(r, l, Range(nodes[r]))'
    BY <1>6, <2>1 DEF Resolved, NodeThere
  <2>3. l.kind = "flux" => \E i \in Analyses' : TakesFluxes(setting'.analyses[i])
    <3>1. CASE l \in loads[r]
      BY <1>4, <1>8, <3>1 DEF RankLoads
    <3>2. CASE l \in CreateLoads(r, a)
      BY <1>4, <1>7, <1>8, <3>2
    <3> QED BY <1>4, <3>1, <3>2
  <2> QED BY <2>2, <2>3
<1>10. ASSUME NEW i \in Analyses', HasMade(r, i)', TakesFluxes(setting'.analyses[i]),
              NEW f \in Range(iomodel'.faces), f.e1 \in my_elements'[r]
       PROVE  \E l \in loads'[r] : FluxFor(f, l)
  <2>0. f \in Range(iomodel.faces)
    BY <1>4 DEF Range
  <2>1. CASE HasMade(r, i)
    BY <1>4, <1>8, <1>10, <2>0, <2>1 DEF RankLoads
  <2>2. CASE i = c
    <3>1. \E l \in CreateLoads(r, a) : FluxFor(f, l)
      BY <1>3, <1>4, <1>10, <2>0, <2>2, FluxLoadsCreated
    <3> QED BY <1>4, <3>1
  <2> QED BY <1>4, <1>8, <1>10, <2>1, <2>2
<1>11. HasElements(r)' /\ pc'[r] # "partition"
  BY <1>2, <1>4, ElementsStay DEF RankLoads
<1> QED BY <1>9, <1>10, <1>11 DEF RankLoads

LEMMA StepLoads ==
  ASSUME NodesInv, MarksInv, HooksInv, LoadsInv, ModelsAreSound, PairsComeInTurn, LoadsAreSound,
         NEW r \in Ranks, StepOf(r)
  PROVE  LoadsInv'
<1>0. Partitioned /\ Ranked /\ Dated
  BY DEF NodesInv, HooksInv
<1>1. PICK B : CountedFrom(B)
  BY DEF HooksInv
<1>2. /\ setting' = setting /\ iomodel' = iomodel /\ current' = current
      /\ \A q \in Ranks : q # r => Idle(q)
  BY <1>0, Movers DEF NodesInv
<1>3. \A q \in Ranks : q # r => loads'[q] = loads[q]
  <2>1. CASE ElementsAndVerticesPartitioning(r)
    BY <1>0, <2>1 DEF ElementsAndVerticesPartitioning, Dated
  <2>2. CASE CreateDatasets(r)
    BY <1>0, <2>2 DEF CreateDatasets, Dated
  <2> QED BY <2>1, <2>2 DEF StepOf
<1> SUFFICES ASSUME NEW q \in Ranks PROVE RankLoads(q)'
  BY DEF LoadsInv
<1>4. RankLoads(q) /\ RankInv(B, q)
  BY <1>1 DEF LoadsInv, CountedFrom
<1>5. CASE q # r
  <2>1. Stays(q) /\ nodes'[q] = nodes[q] /\ loads'[q] = loads[q] /\ pc'[q] = pc[q] /\ current'[q] = current[q]
    BY <1>2, <1>3, <1>5 DEF Stays, Idle, Kept
  <2>2. \A i \in Analyses : HasMade(q, i)' => HasMade(q, i)
    BY <2>1 DEF HasMade
  <2>3. LoadsRest(q)
    BY <2>1, <2>2 DEF LoadsRest
  <2> QED BY <1>4, <2>3, LoadsStay
<1>6. CASE q = r /\ ElementsAndVerticesPartitioning(r)
  BY <1>0, <1>4, <1>6, PartitionLoads
<1>7. CASE q = r /\ CreateDatasets(r)
  BY <1>0, <1>4, <1>7, CreateLoadsInv
<1> QED BY <1>5, <1>6, <1>7 DEF StepOf

LEMMA NextLoads ==
  ASSUME NodesInv, MarksInv, HooksInv, LoadsInv, ModelsAreSound, PairsComeInTurn, LoadsAreSound, [Next]_vars
  PROVE  LoadsInv'
<1>1. CASE \E r \in Ranks : StepOf(r)
  BY <1>1, StepLoads
<1>2. CASE UpdateCounters
  <2> SUFFICES ASSUME NEW q \in Ranks PROVE RankLoads(q)'
    BY DEF LoadsInv
  <2>1. PICK n, M : /\ Turns(n, M)
                    /\ \/ n + 1 \in Analyses /\ \A r \in Ranks : current'[r] = n + 1 /\ pc'[r] = "datasets"
                       \/ n = Len(setting.analyses) /\ \A r \in Ranks : current'[r] = n /\ pc'[r] = "done"
    BY <1>2, TurnsSo
  <2>2. \A i \in Analyses : HasMade(q, i)' => HasMade(q, i)
    BY <2>1, TurnMade DEF NodesInv
  <2>3. Stays(q) /\ nodes'[q] = nodes[q] /\ loads'[q] = loads[q] /\ pc[q] = "counters" /\ pc'[q] # "partition"
    BY <2>1 DEF Turns
  <2>4. LoadsRest(q)
    BY <2>2, <2>3 DEF LoadsRest
  <2> QED BY <2>4, LoadsStay DEF LoadsInv
<1>3. CASE UNCHANGED vars
  <2> SUFFICES ASSUME NEW q \in Ranks PROVE RankLoads(q)'
    BY DEF LoadsInv
  <2>1. Stays(q) /\ nodes' = nodes /\ loads' = loads /\ pc' = pc /\ current' = current
    BY <1>3 DEF vars, Stays
  <2>2. \A i \in Analyses : HasMade(q, i)' => HasMade(q, i)
    BY <2>1 DEF HasMade
  <2>3. LoadsRest(q)
    BY <2>1, <2>2 DEF LoadsRest
  <2> QED BY <2>3, LoadsStay DEF LoadsInv
<1> QED BY <1>1, <1>2, <1>3 DEF Next, Solve, StepOf

\* When the ranks are done, each side has its flux where its first element is.
LEMMA SideFirst ==
  ASSUME Sound, Kind = "tria", NEW f \in Range(iomodel.faces)
  PROVE  f.e1 \in 1..Nel
<1> DEFINE mesh == iomodel.mesh
<1>0. Partitioned /\ IsMesh(mesh) /\ iomodel.faces = Faces2d(mesh)
  BY MeshIsKnown DEF Sound
<1>1. f \in SideRecords(mesh)
  <2>1. Faces2d(mesh) \in Seq(SideRecords(mesh))
    BY <1>0, SidesFound
  <2>2. \A S, s : s \in Seq(S) => Range(s) \subseteq S
    BY DEF Range
  <2> QED BY <1>0, <2>1, <2>2
<1>2. DOMAIN mesh.elements = 1..Nel
  BY <1>0, MeshFacts DEF Nel, NumberOfElements
<1> QED BY <1>1, <1>2 DEF SideRecords, SideFields

LEMMA EndLoads ==
  ASSUME NodesInv, MarksInv, HooksInv, LoadsInv, ModelsAreSound, LoadsAreSound
  PROVE  LoadsResolve
<1> DEFINE fluxes(r) == {l \in loads[r] : l.kind = "flux"}
<1> SUFFICES ASSUME Done
             PROVE  /\ \A r \in Ranks : \A l \in loads[r] :
                         /\ \A k \in DOMAIN l.nodes : NodeThere(Range(nodes[r]), l, k)
                         /\ Cardinality(Range(l.nodes)) = Len(l.nodes)
                         /\ \A k \in DOMAIN l.elements : ElementThere(r, l, k)
                    /\ \A r, q \in Ranks : r # q => fluxes(r) \cap fluxes(q) = {}
                    /\ (\E r \in Ranks : fluxes(r) # {}) =>
                         \A f \in Range(iomodel.faces) : \E r \in Ranks : \E l \in fluxes(r) :
                           Range(f.v) = Range(l.vertices)
  BY DEF LoadsResolve, NodeThere, ElementThere
<1>1. PICK B : CountedFrom(B)
  BY DEF HooksInv
<1>2. AtTheEnd(B)
  BY <1>1 DEF AtTheEnd, HooksInv
<1>3. \A r \in Ranks : RankLoads(r) /\ HasElements(r)
  <2>1. \A r \in Ranks : pc[r] = "done"
    BY DEF Done
  <2> QED BY <2>1 DEF LoadsInv, RankLoads
<1>4. \A r \in Ranks : \A l \in loads[r] : Resolved(r, l, Range(nodes[r]))
  BY <1>3 DEF RankLoads
<1>5. ASSUME NEW r \in Ranks, NEW q \in Ranks, r # q
      PROVE  fluxes(r) \cap fluxes(q) = {}
  <2> SUFFICES ASSUME NEW l, l \in loads[r], l \in loads[q], l.kind = "flux" PROVE FALSE
    OBVIOUS
  <2>1. ElementThere(r, l, 1) /\ ElementThere(q, l, 1)
    BY <1>4 DEF Resolved
  <2>2. l.elements[1] \in my_elements[r] /\ l.elements[1] \in my_elements[q]
    BY <2>1 DEF ElementThere
  <2>3. Epart(setting)[l.elements[1]] = r /\ Epart(setting)[l.elements[1]] = q
    BY <1>3, <2>2 DEF HasElements
  <2> QED BY <1>5, <2>3
<1>6. ASSUME NEW r \in Ranks, fluxes(r) # {}, NEW f \in Range(iomodel.faces)
      PROVE  \E q \in Ranks : \E l \in fluxes(q) : Range(f.v) = Range(l.vertices)
  <2>1. PICK i \in Analyses : TakesFluxes(setting.analyses[i])
    BY <1>3, <1>6 DEF RankLoads
  <2>2. Sound /\ Partitioned
    BY <1>2, EndFacts
  <2>3. Kind = "tria"
    <3>1. iomodel.mesh = setting.mesh /\ setting \in Settings
      BY <2>2, MeshIsKnown DEF Partitioned
    <3>2. setting.mesh.kind = "tria"
      BY <2>1, <3>1, SettingsAssumption DEF TakesFluxes, Analyses
    <3> QED BY <3>1, <3>2 DEF Kind
  <2>4. f.e1 \in 1..Nel
    BY <2>2, <2>3, SideFirst
  <2> DEFINE q == Epart(setting)[f.e1]
  <2>5. q \in Ranks
    BY <2>2, <2>4, EpartIs
  <2>6. f.e1 \in my_elements[q]
    BY <1>3, <2>2, <2>4, <2>5, IoFacts DEF HasElements
  <2> HIDE DEF q
  <2>7. HasMade(q, i)
    BY <1>2, <2>5, EndFacts
  <2>8. PICK l \in loads[q] : FluxFor(f, l)
    BY <1>3, <2>1, <2>5, <2>6, <2>7 DEF RankLoads
  <2> QED BY <2>5, <2>8 DEF FluxFor
<1> QED BY <1>4, <1>5, <1>6 DEF Resolved

(***************************************************************************)
(* Where the loads are (LoadsResolve).  When the ranks are done, a load of *)
(* a rank (CreateLoads, the constructors of Penpair, Riftfront, Pengrid,   *)
(* Moulin and Numericalflux) finds all of its nodes on that rank, at the   *)
(* vertices it is about, no two of them the same, and its elements, which  *)
(* have these vertices; no two ranks have the same flux; and if there are  *)
(* fluxes, each side of a triangle has one.  The two elements of a rift    *)
(* are on one rank and the second vertex of a pair comes along with the    *)
(* first, for any number of ranks and any partition of Metis, provided the *)
(* rifts and pairs are in an order that one pass over them can follow.     *)
(***************************************************************************)
THEOREM LoadsAreResolved ==
  ASSUME ModelsAreSound, PairsComeInTurn, LoadsAreSound
  PROVE  Spec => []LoadsResolve
<1> DEFINE IInv == NodesInv /\ MarksInv /\ HooksInv /\ LoadsInv
<1>1. Init => IInv
  BY InitNodes, InitMarks, InitHooks, InitLoads
<1>2. IInv /\ [Next]_vars => IInv'
  <2>1. SUFFICES ASSUME IInv, [Next]_vars PROVE IInv'
    OBVIOUS
  <2>2. NodesInv'
    BY <2>1, NextNodes
  <2>3. MarksInv'
    BY <2>1, <2>2, NextMarks
  <2>4. HooksInv'
    BY <2>1, NextHooks
  <2>5. LoadsInv'
    BY <2>1, NextLoads
  <2> QED BY <2>2, <2>3, <2>4, <2>5
<1>3. IInv => LoadsResolve
  BY EndLoads
<1> QED BY <1>1, <1>2, <1>3, PTL DEF Spec
=============================================================================

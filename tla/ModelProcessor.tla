--------------------------- MODULE ModelProcessor ---------------------------
(***************************************************************************)
(* The model processor (modules/ModelProcessorx): each rank takes its part *)
(* of the elements and creates, for one analysis after the other, the      *)
(* nodes, constraints and loads that it needs, and tells its elements the  *)
(* ids of their nodes. Ranks do not talk about what they create: that the  *)
(* copies of a node agree, that an element finds its nodes, that a load    *)
(* finds its nodes and elements, rests on all of them numbering in the     *)
(* same way. The only collective is the one that moves the counter of the  *)
(* nodes on for the next analysis.                                         *)
(***************************************************************************)
EXTENDS FiniteElements, Reductions

CONSTANTS
  Ranks,      \* the ranks
  Settings    \* the models of a run; see TypeOK for their fields

CornersOf(kind) == CASE kind = "tria" -> 3 [] kind = "tetra" -> 4 [] kind = "penta" -> 6

\* The finite elements that only prisms have, and those with one field.
OfPrisms == {"P1xP2", "P1xP3", "P2xP1", "P2xP4", "OneLayerP4z"}
ScalarElements == {"P1", "P1bubble", "P1bubblecondensed", "P2", "P2bubble"} \cup
                  {"P1xP2", "P1xP3", "P2xP1", "P2xP4"}

AnalysisTypes == [name : {"Stressbalance", "Masstransport", "Thermal", "Melting", "HydrologyDCInefficient"},
                  model : {"none", "SIA", "SSA", "L1L2", "HO", "FS"},
                  fe : ScalarElements \cup StokesElements, stabilization : Nat]

ASSUME SettingsAssumption ==
  /\ IsFiniteSet(Ranks)
  /\ \A s \in Settings :
       /\ s.mesh.kind \in {"tria", "tetra", "penta"} /\ s.mesh.nv \in Nat
       /\ s.mesh.elements \in Seq(Seq(1..s.mesh.nv))
       /\ \A e \in DOMAIN s.mesh.elements : Len(s.mesh.elements[e]) = CornersOf(s.mesh.kind)
       /\ s.analyses \in Seq(AnalysisTypes) /\ s.analyses # << >>
       /\ \A i, j \in DOMAIN s.analyses : s.analyses[i].name = s.analyses[j].name => i = j
       /\ \A i \in DOMAIN s.analyses :
            LET a == s.analyses[i]
            IN  /\ a.fe \in OfPrisms => s.mesh.kind = "penta"
                /\ a.name = "Stressbalance" => (a.model = "FS" <=> a.fe \in StokesElements)
                /\ a.stabilization = 3 => s.mesh.kind = "tria"
       /\ s.pairing.stressbalance \in Seq((1..s.mesh.nv) \X (1..s.mesh.nv))
       /\ s.pairing.masstransport \in Seq((1..s.mesh.nv) \X (1..s.mesh.nv))

VARIABLES
  setting,      \* the input of this run
  iomodel,      \* its mesh, with edges and faces
  pc,           \* what a rank does next
  current,      \* the number of the analysis it is at
  my_elements,  \* iomodel->my_elements
  my_vertices,  \* iomodel->my_vertices: 1 if an own element has the vertex, 2 if paired
  nodes,        \* the nodes of a rank, in the order of their creation
  hooks,        \* the node ids of its elements, by analysis
  constraints,  \* its constraints
  loads,        \* its loads
  nodecounter   \* iomodel->nodecounter

vars == <<setting, iomodel, pc, current, my_elements, my_vertices, nodes, hooks,
          constraints, loads, nodecounter>>

Elements == 1..NumberOfElements(iomodel)
Vertices == 1..NumberOfVertices(iomodel)
Analyses == DOMAIN setting.analyses

-----------------------------------------------------------------------------
(* Which rank has what.                                                    *)

\* Elements at the two sides of a rift go to one rank: the partition of Metis
\* (external, any) is changed, one segment after the other.
Epart(s) ==
  LET Join(part, rift) == [part EXCEPT ![rift.el2] = part[rift.el1]]
  IN  FoldLeft(Join, s.epart, s.rifts)

\* (mutant) A paired vertex is cloned even where it is present already.
PairVertices_Always(mine, pairing) ==
  LET Clone(got, pair) == IF got[pair[1]] # 0 THEN [got EXCEPT ![pair[2]] = 2] ELSE got
  IN  FoldLeft(Clone, mine, pairing)

\* The second vertex of a pair comes along with the first.
PairVertices(mine, pairing) ==
  LET Clone(got, pair) ==
        IF got[pair[1]] # 0 /\ got[pair[2]] = 0 THEN [got EXCEPT ![pair[2]] = 2] ELSE got
  IN  FoldLeft(Clone, mine, pairing)

MyVertices(mine) ==
  LET own == [v \in Vertices |-> IF \E e \in mine : v \in Range(iomodel.mesh.elements[e])
                                   THEN 1 ELSE 0]
  IN  PairVertices(PairVertices(own, setting.pairing.stressbalance), setting.pairing.masstransport)

MyEdges(r) == UNION {Range(iomodel.elementEdges[e]) : e \in my_elements[r]}
MyFaces(r) == UNION {Range(iomodel.elementFaces[e]) : e \in my_elements[r]}
MyVertexSet(r) == {v \in Vertices : my_vertices[r][v] # 0}

PlaceOf(v, e) == CHOOSE p \in DOMAIN iomodel.mesh.elements[e] : iomodel.mesh.elements[e][p] = v

\* (mutant) The place before the first one is not the third.
DiscontinuousNodes_NoWrap(r) ==
  {<<e, p>> : e \in my_elements[r], p \in 1..3}
    \cup UNION {{<<f.e2, PlaceOf(f.v[1], f.e2)>>, <<f.e2, PlaceOf(f.v[1], f.e2) - 1>>} :
                  f \in {g \in Range(iomodel.faces) :
                           g.e1 \in my_elements[r] /\ g.e2 # 0 /\ g.e2 \notin my_elements[r]}}

\* The nodes <<element, place>> of the discontinuous Galerkin method: those of
\* the own elements, and two of a neighbour across a face that is this rank's.
\* The neighbour goes round the other way, so that the second vertex of the face
\* is at the place before the first one.
DiscontinuousNodes(r) ==
  LET foreign == {f \in Range(iomodel.faces) :
                    /\ iomodel.mesh.domain = "2Dhorizontal"
                    /\ f.e1 \in my_elements[r] /\ f.e2 # 0 /\ f.e2 \notin my_elements[r]}
      Previous(p) == IF p = 1 THEN 3 ELSE p - 1
  IN  {<<e, p>> : e \in my_elements[r], p \in 1..3}
        \cup UNION {{<<f.e2, PlaceOf(f.v[1], f.e2)>>, <<f.e2, Previous(PlaceOf(f.v[1], f.e2))>>} :
                      f \in foreign}

-----------------------------------------------------------------------------
(* Nodes.                                                                  *)

Frozen(a, approximation, v) ==
  /\ iomodel.mesh.domain # "2Dhorizontal"
  /\ v \notin iomodel.mesh.onbase
  /\ \/ a.name = "Stressbalance" /\ approximation \in {"SSA", "L1L2"}
     \/ a.name \in {"Masstransport", "Melting", "HydrologyDCInefficient"}

Node(r, a, id, sid, v, approximation) ==
  [id            |-> nodecounter[r] + id,
   sid           |-> sid,
   vertex        |-> v,
   analysis      |-> a.name,
   approximation |-> IF a.name = "Stressbalance" THEN approximation ELSE "none",
   frozen        |-> Frozen(a, approximation, v)]

HardDeactivate(ns) == [k \in DOMAIN ns |-> [ns[k] EXCEPT !.frozen = TRUE]]

\* The loop over n vertices, edges, ...: a node Make(i, c) for each copy c of one that is mine.
NodesOn(n, mine, Copies(_), Make(_, _)) ==
  FlattenSeq([i \in 1..n |-> IF i \in mine THEN [c \in 1..Copies(i) |-> Make(i, c)] ELSE << >>])

Once(i) == 1

\* Nodes at the vertices, at the elements, at all edges, at the quads.
AtVertices(r, a, offset, approximation) ==
  NodesOn(NumberOfVertices(iomodel), MyVertexSet(r), Once,
          LAMBDA i, c : Node(r, a, offset + i, offset + i - 1, i, approximation))

AtElements(r, a, offset, approximation) ==
  NodesOn(NumberOfElements(iomodel), my_elements[r], Once,
          LAMBDA i, c : Node(r, a, offset + i, offset + i - 1, 1, approximation))

AtEdges(r, a, approximation) ==
  LET nv == NumberOfVertices(iomodel)
  IN  NodesOn(NumberOfEdges(iomodel), MyEdges(r), Once,
              LAMBDA i, c : Node(r, a, nv + i, nv + i - 1, 1, approximation))

Quads == {i \in DOMAIN iomodel.faces : iomodel.faces[i].marker = 2}

AtQuads(r, a, approximation) ==
  LET offset == NumberOfVertices(iomodel) + NumberOfEdges(iomodel)
  IN  IF iomodel.mesh.kind # "penta" THEN << >>
      ELSE NodesOn(NumberOfFaces(iomodel), MyFaces(r) \cap Quads, Once,
                   LAMBDA i, c : Node(r, a, offset + i, offset + i - 1, 1, approximation))

\* Where only some edges have nodes, or more than one, ids leave room for as many on
\* each, but sids count the nodes there are, on all the ranks.
EdgeCopies(perVertical, perHorizontal) ==
  [i \in DOMAIN iomodel.edges |-> IF iomodel.edges[i].marker = 2 THEN perVertical ELSE perHorizontal]

Total(copies, upto) == RunningSum([i \in 0..(Len(copies) - 1) |-> copies[i + 1]], upto)

\* (mutant) The counter moves on with the nodes of this rank only.
CountedEdges_OwnCounter(r, a, stride, copies, approximation) ==
  LET nv == NumberOfVertices(iomodel)
      own == [i \in DOMAIN copies |-> IF i \in MyEdges(r) THEN copies[i] ELSE 0]
  IN  NodesOn(NumberOfEdges(iomodel), MyEdges(r), LAMBDA i : copies[i],
              LAMBDA i, c : Node(r, a, nv + stride * (i - 1) + c,
                                 nv + Total(own, i - 1) + c, 1, approximation))

CountedEdges(r, a, stride, copies, approximation) ==
  LET nv == NumberOfVertices(iomodel)
  IN  NodesOn(NumberOfEdges(iomodel), MyEdges(r), LAMBDA i : copies[i],
              LAMBDA i, c : Node(r, a, nv + stride * (i - 1) + c,
                                 nv + Total(copies, i - 1) + c, 1, approximation))

QuadCopies == [i \in DOMAIN iomodel.faces |-> IF i \in Quads THEN 3 ELSE 0]

CountedQuads(r, a, edgecopies, approximation) ==
  LET offset == NumberOfVertices(iomodel) + 3 * NumberOfEdges(iomodel)
      counter == NumberOfVertices(iomodel) + Total(edgecopies, NumberOfEdges(iomodel))
  IN  NodesOn(NumberOfFaces(iomodel), MyFaces(r), LAMBDA i : QuadCopies[i],
              LAMBDA i, c : Node(r, a, offset + 3 * (i - 1) + c,
                                 counter + Total(QuadCopies, i - 1) + c, 1, approximation))

AtP2(r, a, approximation) ==
  AtVertices(r, a, 0, approximation) \o AtEdges(r, a, approximation) \o AtQuads(r, a, approximation)

\* The first id after the nodes at edges and quads.
AfterP2 == NumberOfVertices(iomodel) + NumberOfEdges(iomodel)
             + (IF iomodel.mesh.kind = "penta" THEN NumberOfFaces(iomodel) ELSE 0)

AtP2bubble(r, a, approximation) ==
  AtP2(r, a, approximation) \o AtElements(r, a, AfterP2, approximation)

AtP2xP4(r, a, approximation) ==
  AtVertices(r, a, 0, approximation) \o CountedEdges(r, a, 3, EdgeCopies(3, 1), approximation)
    \o CountedQuads(r, a, EdgeCopies(3, 1), approximation)

\* The nodes of the elements with one field.
ScalarNodes(r, a, fe, approximation) ==
  LET P1 == AtVertices(r, a, 0, approximation)
      bubbles == AtElements(r, a, NumberOfVertices(iomodel), approximation)
      CornerNode(e, p) ==
        LET i == 3 * (e - 1) + p
        IN  Node(r, a, i, nodecounter[r] + i - 1, iomodel.mesh.elements[e][p], approximation)
  IN  CASE fe = "P1" -> P1
        [] fe = "P1DG" ->
             LET mine == DiscontinuousNodes(r)
                 Corner(e, p) == IF <<e, p>> \in mine THEN <<CornerNode(e, p)>> ELSE << >>
             IN  FlattenSeq([e \in Elements |-> Corner(e, 1) \o Corner(e, 2) \o Corner(e, 3)])
        [] fe = "P1bubble" -> P1 \o bubbles
        [] fe = "P1bubblecondensed" -> P1 \o HardDeactivate(bubbles)
        [] fe = "P1xP2" -> P1 \o CountedEdges(r, a, 1, EdgeCopies(1, 0), approximation)
        [] fe = "P1xP3" -> P1 \o CountedEdges(r, a, 2, EdgeCopies(2, 0), approximation)
        [] fe = "P2xP1" -> P1 \o CountedEdges(r, a, 1, EdgeCopies(0, 1), approximation)
        [] fe = "P2"       -> AtP2(r, a, approximation)
        [] fe = "P2bubble" -> AtP2bubble(r, a, approximation)
        [] fe = "P2xP4"    -> AtP2xP4(r, a, approximation)

\* (mutant) The pressure comes right after the edges, on every mesh.
PressureOffset_NoFaces(fe) ==
  LET nv == NumberOfVertices(iomodel)
  IN  CASE fe \in {"P1P1", "P1P1GLS"} -> nv
        [] fe \in {"MINI", "MINIcondensed"} -> nv + NumberOfElements(iomodel)
        [] fe \in {"TaylorHood", "XTaylorHood"} -> nv + NumberOfEdges(iomodel)
        [] fe = "OneLayerP4z" -> nv + 3 * NumberOfEdges(iomodel) + 3 * NumberOfFaces(iomodel)
        [] fe = "CrouzeixRaviart" -> AfterP2 + NumberOfElements(iomodel)

\* vnodes: the first id of the pressure is the one after this.
PressureOffset(fe) ==
  LET nv == NumberOfVertices(iomodel)
  IN  CASE fe \in {"P1P1", "P1P1GLS"} -> nv
        [] fe \in {"MINI", "MINIcondensed"} -> nv + NumberOfElements(iomodel)
        [] fe \in {"TaylorHood", "XTaylorHood"} -> AfterP2
        [] fe = "OneLayerP4z" -> nv + 3 * NumberOfEdges(iomodel) + 3 * NumberOfFaces(iomodel)
        [] fe = "CrouzeixRaviart" -> AfterP2 + NumberOfElements(iomodel)

\* The nodes of the full Stokes elements: the velocity, then the pressure.
StokesNodes(r, a, fe) ==
  LET P1 == AtVertices(r, a, 0, "FSvelocity")
      bubbles == AtElements(r, a, NumberOfVertices(iomodel), "FSvelocity")
      pressure == AtVertices(r, a, PressureOffset(fe), "FSpressure")
      counter == NumberOfVertices(iomodel) + Total(EdgeCopies(3, 1), NumberOfEdges(iomodel))
                   + Total(QuadCopies, NumberOfFaces(iomodel))
      OneLayerPressure ==
        NodesOn(NumberOfVertices(iomodel), MyVertexSet(r), Once,
                LAMBDA i, c : Node(r, a, PressureOffset(fe) + i, counter + i, i, "FSpressure"))
      CornerNode(e, p) ==
        LET i == PressureOffset(fe) + Len(iomodel.mesh.elements[e]) * (e - 1) + p
        IN  Node(r, a, i, i - 1, iomodel.mesh.elements[e][p], "FSpressure")
      CornerPressure ==
        NodesOn(NumberOfElements(iomodel), my_elements[r],
                LAMBDA e : Len(iomodel.mesh.elements[e]), CornerNode)
  IN  CASE fe \in {"P1P1", "P1P1GLS"} -> P1 \o pressure
        [] fe = "MINIcondensed" -> P1 \o HardDeactivate(bubbles) \o pressure
        [] fe = "MINI" -> P1 \o bubbles \o pressure
        [] fe \in {"TaylorHood", "XTaylorHood"} -> AtP2(r, a, "FSvelocity") \o pressure
        [] fe = "LATaylorHood" -> AtP2(r, a, "FSvelocity")
        [] fe = "OneLayerP4z" -> AtP2xP4(r, a, "FSvelocity") \o OneLayerPressure
        [] fe = "CrouzeixRaviart" -> AtP2bubble(r, a, "FSvelocity") \o CornerPressure
        [] fe = "LACrouzeixRaviart" -> AtP2bubble(r, a, "FSvelocity")

\* The finite element an analysis is solved with.
FiniteElement(a) ==
  CASE a.name = "Stressbalance" -> IF a.model = "L1L2" THEN "P1" ELSE a.fe
    [] a.name = "Masstransport" -> IF a.stabilization = 3 THEN "P1DG" ELSE "P1"
    [] OTHER -> "P1"

\* A stress balance with the shallow ice approximation alone has nothing to solve.
IsSolved(a) == ~ (a.name = "Stressbalance" /\ a.model = "SIA")

\* The finite elements for which Update has a table of ids.
TableFor(kind, fe) ==
  CASE kind = "tria"  -> fe \in {"P1", "P1DG", "P1bubble", "P1bubblecondensed", "P2", "P2bubble"} \cup (StokesElements \ {"OneLayerP4z"})
    [] kind = "tetra" -> fe \in {"P1", "P1bubble", "P1bubblecondensed", "P2", "LATaylorHood", "MINI", "MINIcondensed",
                                 "TaylorHood", "XTaylorHood"}
    [] kind = "penta" -> fe \in ScalarElements \cup (StokesElements \ {"XTaylorHood"})

\* A model that is as the processor takes it for granted: a mesh of distinct elements, prisms
\* in layers, triangles that go round in the same direction, finite elements with a table.
SoundModel(s) ==
  /\ Conforming(s.mesh)
  /\ s.mesh.kind = "penta" => Extruded(s.mesh)
  /\ s.mesh.kind = "tria" => WellOriented(s.mesh)
  /\ \A i \in DOMAIN s.analyses :
       IsSolved(s.analyses[i]) => TableFor(s.mesh.kind, FiniteElement(s.analyses[i]))

ModelsAreSound == \A s \in Settings : SoundModel(s)

CreateNodes(r, a) ==
  IF ~ IsSolved(a) THEN << >>
  ELSE IF a.name = "Stressbalance" /\ a.model = "FS" THEN StokesNodes(r, a, FiniteElement(a))
  ELSE ScalarNodes(r, a, FiniteElement(a), a.model)

-----------------------------------------------------------------------------
(* Constraints: a field of the mesh, given at some of the vertices, for    *)
(* all times at once or for a list of times, is imposed on the nodes.      *)

\* A constraint keeps the point from which its value is interpolated: it exists at
\* the times at which all the vertices of the point have a value.
SpcAt(r, a, dof, id, field, point) ==
  LET times == {t \in setting.spc.at[(CHOOSE w \in point : TRUE)[1]] :
                  \A w \in point : t \in setting.spc.at[w[1]]}
  IN  IF times = {} THEN {}
      ELSE {[node |-> nodecounter[r] + id, analysis |-> a.name, dof |-> dof, field |-> field,
             point |-> point, times |-> times]}

Evenly(vs) == {<<v, 24 \div Cardinality(vs)>> : v \in vs}
Least(vs)  == CHOOSE v \in vs : \A w \in vs : v <= w

\* (mutant) The two nodes of an edge have their weights swapped.
Third_Swapped(ends, c) == {<<v, IF v = Least(ends) THEN 8 * c ELSE 24 - 8 * c>> : v \in ends}

\* The nodes c = 1, 2 that cut an edge into three.
Third(ends, c) == {<<v, IF v = Least(ends) THEN 24 - 8 * c ELSE 8 * c>> : v \in ends}

IoModelToConstraints(r, a, fe, dof) ==
  LET nv == NumberOfVertices(iomodel)
      ne == NumberOfEdges(iomodel)
      Spc(id, point) == SpcAt(r, a, dof, id, "spc", point)
      upright == {i \in MyEdges(r) : iomodel.edges[i].marker = 2}
      Middle(i) == Evenly(iomodel.edges[i].ends)
      Mean(i) == Evenly(iomodel.faces[i].vertices)
      quads == IF iomodel.mesh.kind = "penta" THEN MyFaces(r) \cap Quads ELSE {}
      sides == IF setting.spc.layout = "static" THEN MyEdges(r) \cap iomodel.boundary ELSE MyEdges(r)
      AtCorners == UNION {Spc(v, {<<v, 24>>}) : v \in MyVertexSet(r)}
      AtMiddles(edges) == UNION {Spc(nv + i, Middle(i)) : i \in edges}
      AtCentres(offset) ==
        UNION {Spc(offset + e, Evenly(Range(iomodel.mesh.elements[e]))) : e \in my_elements[r]}
      AtSides == AtMiddles(sides) \cup (IF setting.spc.layout = "transient" THEN {}
                                         ELSE UNION {Spc(nv + ne + i, Mean(i)) : i \in quads})
  IN  AtCorners \cup
        CASE fe \in {"P1", "P1bubblecondensed"} -> {}
          [] fe = "P1bubble" -> AtCentres(nv)
          [] fe = "P1xP2" -> AtMiddles(upright)
          [] fe = "P2xP1" -> AtMiddles(MyEdges(r) \ upright)
          [] fe = "P1xP3" -> UNION {Spc(nv + 2 * (i - 1) + c, Third(iomodel.edges[i].ends, c)) :
                                      i \in upright, c \in 1..2}
          [] fe = "P2" -> AtSides
          [] fe = "P2bubble" -> AtSides \cup AtCentres(AfterP2)
          [] fe = "P2xP4" ->
               UNION {UNION {Spc(nv + 3 * (i - 1) + c, Middle(i)) : i \in upright, c \in 1..3},
                      UNION {Spc(nv + 3 * (i - 1) + 1, Middle(i)) : i \in MyEdges(r) \ upright},
                      UNION {Spc(nv + 3 * ne + 3 * (i - 1) + c, Mean(i)) : i \in quads, c \in 1..3}}

\* The pressure at the vertices without an equation (setting.none).
PressureSpcs(r, a, interpolation) ==
  LET offset ==
        CASE interpolation \in {"P1", "P1bubble"} -> NumberOfVertices(iomodel) + NumberOfElements(iomodel)
          [] interpolation = "P2" -> NumberOfVertices(iomodel) + NumberOfEdges(iomodel)
          [] interpolation = "P2bubble" -> NumberOfVertices(iomodel) + NumberOfEdges(iomodel)
                                             + NumberOfElements(iomodel) + NumberOfFaces(iomodel)
  IN  IF interpolation = "P2xP4" THEN {}
      ELSE {[node |-> nodecounter[r] + offset + v, analysis |-> a.name, dof |-> 0,
             field |-> "FSpressure", point |-> {<<v, 24>>}, times |-> {0}] :
              v \in MyVertexSet(r) \cap setting.none}

StressbalanceConstraints(r, a) ==
  LET plane == iomodel.mesh.domain = "2Dvertical"
      fe == VelocityInterpolation(FiniteElement(a))
      On(dofs) == UNION {IoModelToConstraints(r, a, fe, dof) : dof \in dofs}
  IN  IF a.model = "FS"
        THEN On(IF plane THEN {0, 1} ELSE {0, 1, 2}) \cup PressureSpcs(r, a, fe)
        ELSE On(IF plane THEN {0} ELSE {0, 1})

CreateConstraints(r, a) ==
  CASE ~ IsSolved(a) \/ a.name = "Melting" -> {}
    [] a.name = "Masstransport" /\ a.stabilization = 3 -> {}
    [] a.name = "Stressbalance" /\ IsSolved(a) -> StressbalanceConstraints(r, a)
    [] OTHER -> IoModelToConstraints(r, a, "P1", 0)

-----------------------------------------------------------------------------
(* Loads. Their numbers are used by nothing, and are left out.             *)

Load(a, kind, vs, ns, es) ==
  [analysis |-> a.name, kind |-> kind, vertices |-> vs, nodes |-> ns, elements |-> es]

\* A flux is created with the first element of the face.
Numericalfluxes(r, a) ==
  LET NodeOf(e, v) == nodecounter[r] + 3 * (e - 1) + PlaceOf(v, e)
      Flux(f) == IF f.e2 = 0
                   THEN Load(a, "flux", f.v, <<NodeOf(f.e1, f.v[1]), NodeOf(f.e1, f.v[2])>>, <<f.e1>>)
                   ELSE Load(a, "flux", f.v \o f.v,
                             <<NodeOf(f.e1, f.v[1]), NodeOf(f.e1, f.v[2]),
                               NodeOf(f.e2, f.v[1]), NodeOf(f.e2, f.v[2])>>, <<f.e1>>)
  IN  {Flux(f) : f \in {g \in Range(iomodel.faces) : g.e1 \in my_elements[r]}}

AtVertex(r, v) == nodecounter[r] + v

Penpairs(r, a, pairs) ==
  {Load(a, "penpair", p, <<AtVertex(r, p[1]), AtVertex(r, p[2])>>, << >>) :
     p \in {q \in pairs : my_vertices[r][q[1]] # 0}}

Riftfronts(r, a) ==
  {Load(a, "rift", <<f.node1, f.node2>>, <<AtVertex(r, f.node1), AtVertex(r, f.node2)>>, <<f.el1, f.el2>>) :
     f \in {g \in Range(setting.rifts) : g.el1 \in my_elements[r]}}

\* iomodel->singlenodetoelementconnectivity: the last of the own elements of a
\* vertex, 0 if it has none.
SingleElement(r, v) ==
  LET own == {e \in my_elements[r] : v \in Range(iomodel.mesh.elements[e])}
  IN  IF own = {} THEN 0 ELSE CHOOSE e \in own : \A f \in own : f <= e

\* Pengrids and moulins hang on a node and on one element of its vertex.
SingleNodeLoads(r, a, kind, vs) ==
  {Load(a, kind, <<v>>, <<AtVertex(r, v)>>, <<SingleElement(r, v)>>) : v \in vs \cap MyVertexSet(r)}

OnBed(pairs) ==
  {p \in pairs : iomodel.mesh.domain = "2Dhorizontal" \/ {p[1], p[2]} \subseteq iomodel.mesh.onbase}

CreateLoads(r, a) ==
  CASE a.name = "Stressbalance" ->
         IF IsSolved(a)
           THEN Penpairs(r, a, Range(setting.pairing.stressbalance)) \cup Riftfronts(r, a) ELSE {}
    [] a.name = "Masstransport" ->
         (IF a.stabilization = 3 THEN Numericalfluxes(r, a) ELSE {})
           \cup Penpairs(r, a, OnBed(Range(setting.pairing.masstransport)))
    [] a.name = "Thermal" ->
         SingleNodeLoads(r, a, "pengrid", {v \in Vertices : 0 \notin setting.spc.at[v]})
    [] a.name = "Melting" -> SingleNodeLoads(r, a, "pengrid", iomodel.mesh.onbase)
    [] a.name = "HydrologyDCInefficient" ->
         LET bed == IF iomodel.mesh.domain = "3D" THEN iomodel.mesh.onbase ELSE Vertices
         IN  SingleNodeLoads(r, a, "pengrid", bed) \cup SingleNodeLoads(r, a, "moulin", bed)

\* The node ids that Update gives to the own elements.
UpdateElements(r, a) ==
  [e \in Elements |->
     IF e \in my_elements[r] /\ IsSolved(a)
       THEN LET ids == NodeIds(iomodel, FiniteElement(a), e)
            IN  [k \in DOMAIN ids |-> nodecounter[r] + ids[k]]
       ELSE << >>]

-----------------------------------------------------------------------------
(* What the processor takes for granted of pairs, rifts and constraints.   *)

AllPairs(s) == s.pairing.stressbalance \o s.pairing.masstransport

\* One pass over the pairs is enough: a vertex that is the second of a pair comes in before
\* the pairs that it is the first of, or these are the same pair the other way round, or they
\* come again; where it comes in only with an own vertex, the first time counts.
PairsInTurn(pairs, n) ==
  \A i, j \in 1..n : i <= j /\ pairs[j][2] = pairs[i][1] =>
    \/ pairs[j][1] = pairs[i][2]
    \/ \E k \in (j + 1)..n : pairs[k] = pairs[i]
    \/ /\ \A k \in 1..n : pairs[k][2] # pairs[j][1]
       /\ \E k, l \in 1..n : k < j /\ k < l /\ pairs[k] = pairs[j] /\ pairs[l] = pairs[i]

PairsComeInTurn == \A s \in Settings : PairsInTurn(AllPairs(s), Len(AllPairs(s)))

\* No rift takes an element away from one before it.
RiftsInTurn(s) ==
  \A i, j \in DOMAIN s.rifts : i < j =>
    /\ s.rifts[j].el2 # s.rifts[i].el1
    /\ s.rifts[j].el2 = s.rifts[i].el2 => s.rifts[j].el1 = s.rifts[i].el1

\* Fluxes are for plane views and take no pairs, nor do the loads that hang on an element of
\* their vertex; the nodes of a rift are those of its elements.
SoundLoads(s) ==
  LET els == s.mesh.elements
      pairs == Range(s.pairing.stressbalance) \cup Range(s.pairing.masstransport)
      RiftAt(f) == /\ {f.el1, f.el2} \subseteq DOMAIN els /\ f.node1 # f.node2
                   /\ f.node1 \in Range(els[f.el1]) /\ f.node2 \in Range(els[f.el2])
  IN  /\ s.epart \in [DOMAIN els -> Ranks]
      /\ Len(s.rifts) \in Nat /\ DOMAIN s.rifts = 1..Len(s.rifts) /\ RiftsInTurn(s)
      /\ \A f \in Range(s.rifts) : RiftAt(f)
      /\ \A p \in pairs : p[1] # p[2]
      /\ \A i \in DOMAIN s.analyses :
           LET a == s.analyses[i]
           IN  /\ a.name = "Masstransport" /\ a.stabilization = 3 =>
                     s.mesh.domain = "2Dhorizontal" /\ s.pairing.masstransport = << >>
               /\ a.name \in {"Thermal", "Melting", "HydrologyDCInefficient"} => pairs = {}

LoadsAreSound == \A s \in Settings : SoundLoads(s)

\* Where the pressure is imposed at vertices, the finite element has its pressure in the
\* order in which the constraints count: for the others they name other nodes.
PressureIsWherePut ==
  \A s \in Settings : \A i \in DOMAIN s.analyses :
    LET a == s.analyses[i]
    IN  a.name = "Stressbalance" /\ a.model = "FS" /\ s.none # {} =>
          \/ a.fe \in {"MINI", "MINIcondensed", "OneLayerP4z"}
          \/ a.fe \in {"TaylorHood", "XTaylorHood"} /\ s.mesh.kind # "penta"

-----------------------------------------------------------------------------
(* ModelProcessorx.                                                        *)

Init ==
  /\ setting \in Settings
  /\ iomodel = IoModel(setting.mesh)
  /\ pc = [r \in Ranks |-> "partition"]
  /\ current = [r \in Ranks |-> 1]
  /\ my_elements = [r \in Ranks |-> {}]
  /\ my_vertices = [r \in Ranks |-> [v \in Vertices |-> 0]]
  /\ nodes = [r \in Ranks |-> << >>]
  /\ hooks = [r \in Ranks |-> [i \in Analyses |-> [e \in Elements |-> << >>]]]
  /\ constraints = [r \in Ranks |-> {}]
  /\ loads = [r \in Ranks |-> {}]
  /\ nodecounter = [r \in Ranks |-> 0]

\* A rank finds its elements and vertices.
ElementsAndVerticesPartitioning(r) ==
  LET mine == {e \in Elements : Epart(setting)[e] = r}
  IN  /\ pc[r] = "partition"
      /\ my_elements' = [my_elements EXCEPT ![r] = mine]
      /\ my_vertices' = [my_vertices EXCEPT ![r] = MyVertices(mine)]
      /\ pc' = [pc EXCEPT ![r] = "datasets"]
      /\ UNCHANGED <<setting, iomodel, current, nodes, hooks, constraints, loads, nodecounter>>

\* A rank creates what it needs for the analysis it is at.
CreateDatasets(r) ==
  LET a == setting.analyses[current[r]]
  IN  /\ pc[r] = "datasets"
      /\ nodes' = [nodes EXCEPT ![r] = @ \o CreateNodes(r, a)]
      /\ constraints' = [constraints EXCEPT ![r] = @ \cup CreateConstraints(r, a)]
      /\ loads' = [loads EXCEPT ![r] = @ \cup CreateLoads(r, a)]
      /\ hooks' = [hooks EXCEPT ![r][current[r]] = UpdateElements(r, a)]
      /\ pc' = [pc EXCEPT ![r] = "counters"]
      /\ UNCHANGED <<setting, iomodel, current, my_elements, my_vertices, nodecounter>>

\* The ranks meet in nodes->MaximumId, which a rank without nodes does not call,
\* and in the sums of the loads and constraints.
UpdateCounters ==
  LET ids == UNION {{nodes[r][k].id : k \in DOMAIN nodes[r]} : r \in Ranks}
  IN  /\ \A r \in Ranks : pc[r] = "counters"
      /\ (\E r \in Ranks : nodes[r] = << >>) => ids = {}
      /\ nodecounter' = IF ids = {} THEN nodecounter
                        ELSE [r \in Ranks |-> CHOOSE i \in ids : \A j \in ids : j <= i]
      /\ IF \A r \in Ranks : current[r] < Len(setting.analyses)
           THEN /\ current' = [r \in Ranks |-> current[r] + 1]
                /\ pc' = [r \in Ranks |-> "datasets"]
           ELSE /\ pc' = [r \in Ranks |-> "done"]
                /\ UNCHANGED current
      /\ UNCHANGED <<setting, iomodel, my_elements, my_vertices, nodes, hooks, constraints, loads>>

\* The solution goes on from there.
Done == \A r \in Ranks : pc[r] = "done"

Solve == Done /\ UNCHANGED vars

Next ==
  \/ \E r \in Ranks : ElementsAndVerticesPartitioning(r) \/ CreateDatasets(r)
  \/ UpdateCounters
  \/ Solve

Spec == Init /\ [][Next]_vars

-----------------------------------------------------------------------------
(* Properties.                                                             *)

Paired(r) ==
  {p[2] : p \in {q \in Range(setting.pairing.stressbalance) \cup Range(setting.pairing.masstransport) :
                   my_vertices[r][q[1]] # 0}}

\* The variables have their types; a partitioned rank has the vertices of its own
\* elements, and those paired with one it has, and marks as 2 just those of the
\* latter that none of its elements has.
TypeOK ==
  /\ setting \in Settings
  /\ pc \in [Ranks -> {"partition", "datasets", "counters", "done"}]
  /\ current \in [Ranks -> Analyses]
  /\ nodecounter \in [Ranks -> Nat]
  /\ my_elements \in [Ranks -> SUBSET Elements]
  /\ my_vertices \in [Ranks -> [Vertices -> 0..2]]
  /\ \A r \in Ranks : pc[r] # "partition" =>
       \A v \in Vertices :
         LET mark == IF \E e \in my_elements[r] : v \in Range(iomodel.mesh.elements[e]) THEN 1
                     ELSE IF v \in Paired(r) THEN 2 ELSE 0
         IN  my_vertices[r][v] = mark

\* What an element sees of an analysis: pairs of a node id and the place of the node.
Seen(i, e, r) ==
  LET places == NodePlaces(iomodel, FiniteElement(setting.analyses[i]), e)
  IN  {<<hooks[r][i][e][k], places[k]>> : k \in DOMAIN hooks[r][i][e]}

SeenByAll(i) == UNION {UNION {Seen(i, e, r) : e \in my_elements[r]} : r \in Ranks}

\* A node may also be there for a paired vertex, or for a flux with a neighbour.
IsForALoad(r, n) ==
  \/ n.vertex \in Paired(r)
  \/ \E l \in loads[r] : l.analysis = n.analysis /\ n.id \in Range(l.nodes)

\* Each element finds each of its nodes on its rank, among those of the analysis,
\* with the field and, at a corner, the vertex that its basis functions have
\* there (Update and CreateNodes agree); two elements, on whatever rank, use one
\* id for one point and different ids for different ones, and no two analyses
\* share an id; a rank has no node that nothing of it uses; and nodes come in
\* the order of their ids, as the datasets are declared sorted.
HooksResolve ==
  Done =>
    /\ \A r \in Ranks : \A j, k \in DOMAIN nodes[r] : j < k => nodes[r][j].id < nodes[r][k].id
    /\ \A r \in Ranks, i \in Analyses : \A e \in my_elements[r] :
         LET a == setting.analyses[i]
             places == NodePlaces(iomodel, FiniteElement(a), e)
         IN  IsSolved(a) =>
               /\ Len(hooks[r][i][e]) = Len(places)
               /\ \A k \in DOMAIN places :
                    \E n \in Range(nodes[r]) :
                      /\ n.id = hooks[r][i][e][k] /\ n.analysis = a.name
                      /\ places[k].field \in {"any", n.approximation}
                      /\ \A w \in places[k].point : w[2] = 24 => n.vertex = w[1]
    /\ \A i, j \in Analyses : \A x \in SeenByAll(i), y \in SeenByAll(j) :
         x[1] = y[1] <=> (i = j /\ x[2] = y[2])
    /\ \A r \in Ranks : \A n \in Range(nodes[r]) :
         IsForALoad(r, n) \/ \E i \in Analyses : \E e \in my_elements[r] : n.id \in Range(hooks[r][i][e])

\* The copies of a node on several ranks are equal in all their fields, and have
\* the same constraints; the serial ids of an analysis are different for different
\* nodes. No message is exchanged about either.
CopiesAgree ==
  Done => \A r, q \in Ranks :
    /\ \A m \in Range(nodes[r]), n \in Range(nodes[q]) :
         /\ m.id = n.id => m = n
         /\ m.analysis = n.analysis /\ m.sid = n.sid => m.id = n.id
    /\ \A c \in constraints[r] :
         (\E n \in Range(nodes[q]) : n.id = c.node) => c \in constraints[q]

\* A constraint is on a node of the rank, and takes its value where the element
\* has that node: the mean or the weighted mean of the same vertices, for the
\* same field, and not for the pressure unless it is its own. (For P2xP4 the code
\* uses the mean at the quarter points too: there only the vertices are the same.)
\* And no vertex with a value is left without one.
SpcsAreInterpolated ==
  LET Vs(point) == {w[1] : w \in point}
      Sees(a, c, place) ==
        /\ IF VelocityInterpolation(FiniteElement(a)) = "P2xP4" THEN Vs(place.point) = Vs(c.point)
                                                              ELSE place.point = c.point
        /\ (place.field = "FSpressure") = (c.field = "FSpressure")
  IN  Done => \A r \in Ranks :
        /\ \A c \in constraints[r] :
             /\ c.node \in {n.id : n \in Range(nodes[r])}
             /\ \E i \in Analyses :
                  /\ setting.analyses[i].name = c.analysis
                  /\ \E x \in SeenByAll(i) : x[1] = c.node /\ Sees(setting.analyses[i], c, x[2])
        /\ \A i \in Analyses, v \in MyVertexSet(r) :
             (setting.spc.at[v] # {} /\ CreateConstraints(r, setting.analyses[i]) # {}) =>
               \E c \in constraints[r] : c.analysis = setting.analyses[i].name /\ c.point = {<<v, 24>>}

\* A load finds its nodes on its rank, at the vertices it is about, and its
\* elements, which have these vertices; the two sides of a flux are different nodes
\* at the same vertices; and each side of a triangle has its flux on one rank.
LoadsResolve ==
  LET fluxes(r) == {l \in loads[r] : l.kind = "flux"}
  IN  Done =>
    /\ \A r \in Ranks : \A l \in loads[r] :
         /\ \A k \in DOMAIN l.nodes : \E n \in Range(nodes[r]) :
              n.id = l.nodes[k] /\ n.analysis = l.analysis /\ n.vertex = l.vertices[k]
         /\ Cardinality(Range(l.nodes)) = Len(l.nodes)
         /\ \A k \in DOMAIN l.elements :
              l.elements[k] \in my_elements[r] /\ l.vertices[k] \in Range(iomodel.mesh.elements[l.elements[k]])
    /\ \A r, q \in Ranks : r # q => fluxes(r) \cap fluxes(q) = {}
    /\ (\E r \in Ranks : fluxes(r) # {}) =>
         \A f \in Range(iomodel.faces) : \E r \in Ranks : \E l \in fluxes(r) :
           Range(f.v) = Range(l.vertices)
=============================================================================

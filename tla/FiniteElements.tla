--------------------------- MODULE FiniteElements ---------------------------
(***************************************************************************)
(* What an element knows of its nodes: their ids (Tria::Update,            *)
(* Tetra::Update, Penta::Update), and the points of the element at which   *)
(* its basis functions have them (TriaRef, TetraRef, PentaRef).            *)
(*                                                                         *)
(* Each finite element has its own table of ids here, and a loop that      *)
(* creates its nodes in ModelProcessor (CreateNodes.cpp). Nothing but the  *)
(* same arithmetic in both ties one to the other.                          *)
(***************************************************************************)
EXTENDS Mesh

NumberOfVertices(io) == io.mesh.nv
NumberOfElements(io) == Len(io.mesh.elements)
NumberOfEdges(io)    == Len(io.edges)
NumberOfFaces(io)    == Len(io.faces)

-----------------------------------------------------------------------------
(* Ids are relative to iomodel->nodecounter.                               *)

\* One node at each vertex of the element.
VertexIds(io, e, offset) == [k \in DOMAIN io.mesh.elements[e] |-> offset + io.mesh.elements[e][k]]

\* The node `copy' of each of the edges `which', at `stride' ids per edge; of
\* each of the faces.
EdgeIds(io, e, which, stride, copy) ==
  [k \in DOMAIN which |->
     NumberOfVertices(io) + stride * (io.elementEdges[e][which[k]] - 1) + copy]

FaceIds(io, e, offset, stride, copy) ==
  [k \in 1..3 |-> offset + stride * (io.elementFaces[e][k + 2] - 1) + copy]

\* One node for each vertex of the element, which no other element has.
OwnIds(io, e, offset) ==
  LET n == Len(io.mesh.elements[e]) IN [k \in 1..n |-> offset + n * (e - 1) + k]

TriaNodeIds(io, fe, e) ==
  LET nv == NumberOfVertices(io)
      ne == NumberOfEdges(io)
      P1 == VertexIds(io, e, 0)
      P2 == P1 \o EdgeIds(io, e, <<1, 2, 3>>, 1, 1)
      bubbleP2 == P2 \o <<nv + ne + e>>
  IN  CASE fe = "P1"   -> P1
        [] fe = "P1DG" -> OwnIds(io, e, 0)
        [] fe \in {"P1bubble", "P1bubblecondensed"} -> P1 \o <<nv + e>>
        [] fe \in {"P2", "LATaylorHood"} -> P2
        [] fe \in {"P2bubble", "LACrouzeixRaviart"} -> bubbleP2
        [] fe \in {"P1P1", "P1P1GLS"} -> P1 \o VertexIds(io, e, nv)
        [] fe \in {"MINI", "MINIcondensed"} ->
             P1 \o <<nv + e>> \o VertexIds(io, e, nv + NumberOfElements(io))
        [] fe \in {"TaylorHood", "XTaylorHood"} -> P2 \o VertexIds(io, e, nv + ne)
        [] fe = "CrouzeixRaviart" -> bubbleP2 \o OwnIds(io, e, nv + ne + NumberOfElements(io))

TetraNodeIds(io, fe, e) ==
  LET nv == NumberOfVertices(io)
      P1 == VertexIds(io, e, 0)
      P2 == P1 \o EdgeIds(io, e, <<1, 2, 3, 4, 5, 6>>, 1, 1)
  IN  CASE fe = "P1" -> P1
        [] fe \in {"P1bubble", "P1bubblecondensed"} -> P1 \o <<nv + e>>
        [] fe \in {"P2", "LATaylorHood"} -> P2
        [] fe \in {"MINI", "MINIcondensed"} ->
             P1 \o <<nv + e>> \o VertexIds(io, e, nv + NumberOfElements(io))
        [] fe \in {"TaylorHood", "XTaylorHood"} -> P2 \o VertexIds(io, e, nv + NumberOfEdges(io))

vertical   == <<1, 2, 3>>                  \* places of the edges of a penta
horizontal == <<4, 5, 6, 7, 8, 9>>

\* Three nodes on vertical edges and quads, one on horizontal edges.
PentaP2xP4Ids(io, e) ==
  LET quads == NumberOfVertices(io) + 3 * NumberOfEdges(io)
  IN  VertexIds(io, e, 0)
        \o EdgeIds(io, e, vertical, 3, 1) \o EdgeIds(io, e, horizontal, 3, 1)
        \o EdgeIds(io, e, vertical, 3, 2) \o EdgeIds(io, e, vertical, 3, 3)
        \o FaceIds(io, e, quads, 3, 1) \o FaceIds(io, e, quads, 3, 2) \o FaceIds(io, e, quads, 3, 3)

PentaP2Ids(io, e) ==
  VertexIds(io, e, 0) \o EdgeIds(io, e, vertical, 1, 1) \o EdgeIds(io, e, horizontal, 1, 1)
    \o FaceIds(io, e, NumberOfVertices(io) + NumberOfEdges(io), 1, 1)

PentaNodeIds(io, fe, e) ==
  LET nv == NumberOfVertices(io)
      P1 == VertexIds(io, e, 0)
      P2 == PentaP2Ids(io, e)
      afterP2 == nv + NumberOfEdges(io) + NumberOfFaces(io)
      bubbleP2 == P2 \o <<afterP2 + e>>
  IN  CASE fe = "P1" -> P1
        [] fe \in {"P1bubble", "P1bubblecondensed"} -> P1 \o <<nv + e>>
        [] fe = "P1xP2" -> P1 \o EdgeIds(io, e, vertical, 1, 1)
        [] fe = "P1xP3" -> P1 \o EdgeIds(io, e, vertical, 2, 1) \o EdgeIds(io, e, vertical, 2, 2)
        [] fe = "P2xP1" -> P1 \o EdgeIds(io, e, horizontal, 1, 1)
        [] fe = "P2xP4" -> PentaP2xP4Ids(io, e)
        [] fe \in {"P2", "LATaylorHood"} -> P2
        [] fe \in {"P2bubble", "LACrouzeixRaviart"} -> bubbleP2
        [] fe \in {"P1P1", "P1P1GLS"} -> P1 \o VertexIds(io, e, nv)
        [] fe \in {"MINI", "MINIcondensed"} ->
             P1 \o <<nv + e>> \o VertexIds(io, e, nv + NumberOfElements(io))
        [] fe = "TaylorHood" -> P2 \o VertexIds(io, e, afterP2)
        [] fe = "OneLayerP4z" ->
             PentaP2xP4Ids(io, e)
               \o VertexIds(io, e, nv + 3 * NumberOfEdges(io) + 3 * NumberOfFaces(io))
        [] fe = "CrouzeixRaviart" -> bubbleP2 \o OwnIds(io, e, afterP2 + NumberOfElements(io))

NodeIds(io, fe, e) ==
  CASE io.mesh.kind = "tria"  -> TriaNodeIds(io, fe, e)
    [] io.mesh.kind = "tetra" -> TetraNodeIds(io, fe, e)
    [] io.mesh.kind = "penta" -> PentaNodeIds(io, fe, e)

-----------------------------------------------------------------------------
(* A point of an element: a set of <<place of a vertex, weight>>, the      *)
(* weights being in units of 1/24.                                         *)

Corners(n) == [k \in 1..n |-> {<<k, 24>>}]

Between(p, q)    == {<<p, 12>>, <<q, 12>>}
Centre(n)        == {<<p, 24 \div n>> : p \in 1..n}

\* At height 0, 1, 2, 3 or 4 fourths on the side (p, q) of a penta's base; p = q
\* is a vertical edge.
OnSide(p, q, fourths) ==
  LET half == IF p = q THEN 6 ELSE 3
  IN  {<<v, half * (4 - fourths)>> : v \in {p, q}} \cup {<<v + 3, half * fourths>> : v \in {p, q}}

TriaPoints(fe) ==
  LET sides == <<Between(2, 3), Between(3, 1), Between(1, 2)>>
  IN  CASE fe \in {"P1", "P1DG"} -> Corners(3)
        [] fe \in {"P1bubble", "P1bubblecondensed"} -> Corners(3) \o <<Centre(3)>>
        [] fe = "P2"       -> Corners(3) \o sides
        [] fe = "P2bubble" -> Corners(3) \o sides \o <<Centre(3)>>

TetraPoints(fe) ==
  LET edges == <<Between(2, 3), Between(1, 3), Between(1, 2),
                 Between(2, 4), Between(3, 4), Between(1, 4)>>
  IN  CASE fe = "P1" -> Corners(4)
        [] fe \in {"P1bubble", "P1bubblecondensed"} -> Corners(4) \o <<Centre(4)>>
        [] fe = "P2" -> Corners(4) \o edges

PentaPoints(fe) ==
  LET Uprights(fourths) == [p \in 1..3 |-> OnSide(p, p, fourths)]
      Quads(fourths) == <<OnSide(2, 3, fourths), OnSide(3, 1, fourths), OnSide(1, 2, fourths)>>
      sides == <<Between(2, 3), Between(3, 1), Between(1, 2),
                 Between(5, 6), Between(6, 4), Between(4, 5)>>
      P2 == Corners(6) \o Uprights(2) \o sides \o Quads(2)
  IN  CASE fe \in {"P1", "P1DG"} -> Corners(6)
        [] fe \in {"P1bubble", "P1bubblecondensed"} -> Corners(6) \o <<Centre(6)>>
        [] fe = "P2xP1" -> Corners(6) \o sides
        [] fe = "P1xP2" -> Corners(6) \o Uprights(2)
        [] fe = "P1xP3" -> Corners(6) \o [p \in 1..3 |-> {<<p, 16>>, <<p + 3, 8>>}]
                                      \o [p \in 1..3 |-> {<<p, 8>>, <<p + 3, 16>>}]
        [] fe = "P2"       -> P2
        [] fe = "P2bubble" -> P2 \o <<Centre(6)>>
        [] fe = "P2xP4" -> Corners(6) \o Uprights(2) \o sides \o Uprights(1) \o Uprights(3)
                             \o Quads(1) \o Quads(2) \o Quads(3)

\* A finite element of the full Stokes equations has the nodes of the velocity
\* before those of the pressure. The others have one field.
VelocityInterpolation(fe) ==
  CASE fe \in {"P1P1", "P1P1GLS"}       -> "P1"
    [] fe \in {"MINI", "MINIcondensed"} -> "P1bubble"
    [] fe \in {"TaylorHood", "XTaylorHood", "LATaylorHood"} -> "P2"
    [] fe = "OneLayerP4z" -> "P2xP4"
    [] fe \in {"CrouzeixRaviart", "LACrouzeixRaviart"} -> "P2bubble"
    [] OTHER -> fe

PressureInterpolation(fe) ==
  CASE fe \in {"LATaylorHood", "LACrouzeixRaviart"} -> "None"
    [] fe = "CrouzeixRaviart" -> "P1DG"
    [] OTHER -> "P1"

StokesElements == {"P1P1", "P1P1GLS", "MINI", "MINIcondensed", "TaylorHood", "XTaylorHood",
                   "LATaylorHood", "OneLayerP4z", "CrouzeixRaviart", "LACrouzeixRaviart"}

Points(kind, fe) ==
  CASE kind = "tria"  -> TriaPoints(fe)
    [] kind = "tetra" -> TetraPoints(fe)
    [] kind = "penta" -> PentaPoints(fe)

\* Where element e sees its nodes: a point of the mesh (vertices with their
\* weights), the field, and the element itself (0 where it shares the node).
NodePlaces(io, fe, e) ==
  LET OfField(field, interpolation) ==
        IF interpolation = "None" THEN << >>
        ELSE LET points == Points(io.mesh.kind, interpolation)
             IN  [k \in DOMAIN points |->
                    [field |-> field,
                     point |-> {<<io.mesh.elements[e][w[1]], w[2]>> :
                                  w \in {u \in points[k] : u[2] # 0}},
                     own   |-> IF interpolation = "P1DG" THEN e ELSE 0]]
  IN  IF fe \in StokesElements
        THEN OfField("FSvelocity", VelocityInterpolation(fe))
               \o OfField("FSpressure", PressureInterpolation(fe))
        ELSE OfField("any", fe)
=============================================================================

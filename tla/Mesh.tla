-------------------------------- MODULE Mesh --------------------------------
(***************************************************************************)
(* The edges and faces of a mesh, as the model processor makes them from   *)
(* the list of elements: modules/ModelProcessorx/CreateEdges.cpp and       *)
(* CreateFaces.cpp. Vertices, elements, edges and faces are numbered from  *)
(* 1; element e is the sequence mesh.elements[e] of its vertices. Every    *)
(* rank makes the same lists, since it has the whole mesh.                 *)
(***************************************************************************)
EXTENDS Integers, Sequences, FiniteSets, SequencesExt

\* The edges of an element: two places among its vertices, and a marker that
\* is 2 for the vertical edges of a penta.
LocalEdges(kind) ==
  CASE kind = "tria"  -> << <<2, 3, 1>>, <<3, 1, 1>>, <<1, 2, 1>> >>
    [] kind = "tetra" -> << <<2, 3, 1>>, <<1, 3, 1>>, <<1, 2, 1>>,
                            <<2, 4, 1>>, <<3, 4, 1>>, <<1, 4, 1>> >>
    [] kind = "penta" -> << <<1, 4, 2>>, <<2, 5, 2>>, <<3, 6, 2>>,
                            <<2, 3, 1>>, <<3, 1, 1>>, <<1, 2, 1>>,
                            <<5, 6, 1>>, <<6, 4, 1>>, <<4, 5, 1>> >>

EdgeEnds(mesh, e, k) ==
  LET local == LocalEdges(mesh.kind)[k]
  IN  {mesh.elements[e][local[1]], mesh.elements[e][local[2]]}

\* The edges in the order in which the elements show them for the first time.
Edges(mesh) ==
  LET AddEdge(edges, edge) ==
        IF \E i \in DOMAIN edges : edges[i].ends = edge.ends THEN edges ELSE Append(edges, edge)
      OfElement(e) ==
        [k \in DOMAIN LocalEdges(mesh.kind) |->
           [ends |-> EdgeEnds(mesh, e, k), marker |-> LocalEdges(mesh.kind)[k][3]]]
  IN  FoldLeft(AddEdge, << >>, FlattenSeq([e \in DOMAIN mesh.elements |-> OfElement(e)]))

\* iomodel->elementtoedgeconnectivity
ElementToEdge(mesh, edges) ==
  [e \in DOMAIN mesh.elements |->
     [k \in DOMAIN LocalEdges(mesh.kind) |->
        CHOOSE i \in DOMAIN edges : edges[i].ends = EdgeEnds(mesh, e, k)]]

-----------------------------------------------------------------------------
(* Faces of triangles are their sides, in the direction in which the first *)
(* of the two elements goes round; e2 = 0 on the boundary.                 *)

SidesOf(mesh, e) ==
  LET v == mesh.elements[e] IN << <<v[1], v[2]>>, <<v[2], v[3]>>, <<v[3], v[1]>> >>

Faces2d(mesh) ==
  LET AddSide(faces, side) ==
        LET Same(f) == {side.v[1], side.v[2]} = {f.v[1], f.v[2]}
        IN  IF \E i \in DOMAIN faces : Same(faces[i])
              THEN [i \in DOMAIN faces |->
                      IF Same(faces[i]) THEN [faces[i] EXCEPT !.e2 = side.e1] ELSE faces[i]]
              ELSE Append(faces, side)
      OfElement(e) == [k \in 1..3 |-> [v |-> SidesOf(mesh, e)[k], e1 |-> e, e2 |-> 0]]
  IN  FoldLeft(AddSide, << >>, FlattenSeq([e \in DOMAIN mesh.elements |-> OfElement(e)]))

\* The faces of a solid element: places among its vertices; the marker of a
\* face is 2 for the vertical quads of a penta, and 1 for triangles.
LocalFaces(kind) ==
  CASE kind = "penta" -> << {1, 2, 3}, {4, 5, 6}, {2, 3, 6, 5}, {3, 1, 4, 6}, {1, 2, 5, 4} >>
    [] kind = "tetra" -> << {1, 2, 3}, {1, 4, 2}, {2, 4, 3}, {1, 3, 4} >>

FaceVertices(mesh, e, k) == {mesh.elements[e][p] : p \in LocalFaces(mesh.kind)[k]}

\* Two faces are the same if their three smallest vertices are.
ThreeSmallest(vertices) == {v \in vertices : Cardinality({w \in vertices : w < v}) < 3}

Faces3d(mesh) ==
  LET AddFace(faces, face) ==
        LET Same(f) == ThreeSmallest(face.vertices) = ThreeSmallest(f.vertices)
        IN  IF \E i \in DOMAIN faces : Same(faces[i])
              THEN [i \in DOMAIN faces |->
                      IF Same(faces[i]) THEN [faces[i] EXCEPT !.e2 = face.e1] ELSE faces[i]]
              ELSE Append(faces, face)
      OfElement(e) ==
        [k \in DOMAIN LocalFaces(mesh.kind) |->
           [vertices |-> FaceVertices(mesh, e, k), e1 |-> e, e2 |-> 0,
            marker |-> IF Cardinality(LocalFaces(mesh.kind)[k]) = 4 THEN 2 ELSE 1]]
  IN  FoldLeft(AddFace, << >>, FlattenSeq([e \in DOMAIN mesh.elements |-> OfElement(e)]))

\* iomodel->elementtofaceconnectivity
ElementToFace(mesh, faces) ==
  [e \in DOMAIN mesh.elements |->
     [k \in DOMAIN LocalFaces(mesh.kind) |->
        CHOOSE i \in DOMAIN faces :
          ThreeSmallest(faces[i].vertices) = ThreeSmallest(FaceVertices(mesh, e, k))]]

-----------------------------------------------------------------------------
\* An edge is on the boundary if it belongs to one triangle only or, in 3d,
\* if the element of a face that has no second one has it in that face.
BoundaryEdges(mesh, edges, faces) ==
  IF mesh.kind = "tria"
    THEN {i \in DOMAIN edges :
            Cardinality({e \in DOMAIN mesh.elements : edges[i].ends \subseteq Range(mesh.elements[e])}) = 1}
    ELSE {i \in DOMAIN edges :
            \E f \in Range(faces) : /\ f.e2 = 0
                                    /\ i \in Range(ElementToEdge(mesh, edges)[f.e1])
                                    /\ edges[i].ends \subseteq f.vertices}

\* What the model processor knows of a mesh.
IoModel(mesh) ==
  LET edges == Edges(mesh)
      faces == IF mesh.kind = "tria" THEN Faces2d(mesh) ELSE Faces3d(mesh)
  IN  [mesh         |-> mesh,
       edges        |-> edges,
       faces        |-> faces,
       elementEdges |-> ElementToEdge(mesh, edges),
       elementFaces |-> IF mesh.kind = "tria" THEN << >> ELSE ElementToFace(mesh, faces),
       boundary     |-> BoundaryEdges(mesh, edges, faces)]

-----------------------------------------------------------------------------
(* What the processor takes for granted of a mesh. The programs that make  *)
(* meshes see to it (mesh/FixMesh.m; extrude in classes/model.m).          *)

\* The vertices of an element are different, and so are those of two elements.
Conforming(mesh) ==
  /\ \A e \in DOMAIN mesh.elements : \A p, q \in DOMAIN mesh.elements[e] :
       mesh.elements[e][p] = mesh.elements[e][q] => p = q
  /\ \A e, f \in DOMAIN mesh.elements : Range(mesh.elements[e]) = Range(mesh.elements[f]) => e = f

\* Prisms come from an extrusion: vertex v + n is above vertex v,
\* n being the number of vertices of a layer.
IsLayer(mesh, n) ==
  /\ n \in Nat /\ n > 0
  /\ \A e \in DOMAIN mesh.elements : \A p \in 1..3 :
       /\ mesh.elements[e][p + 3] = mesh.elements[e][p] + n
       /\ \A q \in 1..3 : mesh.elements[e][p] - mesh.elements[e][q] < n

Extruded(mesh) == \E n \in 1..mesh.nv : IsLayer(mesh, n)

\* All triangles go round in the same direction: two of them go along a side they share
\* in opposite directions.
WellOriented(mesh) ==
  \A e, f \in DOMAIN mesh.elements : \A k, l \in 1..3 :
    SidesOf(mesh, e)[k] = SidesOf(mesh, f)[l] => e = f

=============================================================================

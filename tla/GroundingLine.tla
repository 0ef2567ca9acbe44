--------------------------- MODULE GroundingLine ---------------------------
(***************************************************************************)
(* Migration of the grounding line, once per time step.                    *)
(*                                                                         *)
(* A vertex is grounded where its level set is positive and floats where   *)
(* it is negative.  With the soft migration, grounded ice that is light    *)
(* enough to float lifts off only if it is connected to the ice shelf: the *)
(* ranks flood the mesh from the shelf, element by element, through a      *)
(* vector that all of them fill and read back, and stop together when one  *)
(* round has turned no vertex.  Then every rank updates the geometry of    *)
(* the vertices of its own elements.                                       *)
(*                                                                         *)
(* The inputs of the elements are kept by rank and vertex.  What is done   *)
(* by a rank with its own data just before a collective is done in that    *)
(* collective.  The level set is multiplied by the density ratio: only its *)
(* sign is used.                                                           *)
(***************************************************************************)
EXTENDS Reductions, Integers, FiniteSets

CONSTANTS
  NumProcs,       \* size of the communicator
  NumVertices,    \* vertices are known by their pid, from 0
  ElementsOf,     \* ElementsOf[r]: the elements of rank r
  VerticesOf,     \* VerticesOf[e]: the vertices of element e
  Bed,            \* Bed[v]: elevation of the bedrock
  Draft,          \* Draft[h]: what ice of thickness h has under water
  Thicknesses,    \* Thicknesses[v]: what mass transport can leave at v
  SeaLevels,      \* the sea levels that the sea level core can return
  Masks,          \* the level sets that a user can start from
  Styles          \* the migration styles to consider

Rank    == 0..(NumProcs - 1)
Vertex  == 0..(NumVertices - 1)
Element == UNION {ElementsOf[r] : r \in Rank}
VerticesOn(r) == UNION {VerticesOf[e] : e \in ElementsOf[r]}

ASSUME MeshAssumption ==
  /\ NumProcs \in Nat \ {0} /\ NumVertices \in Nat \ {0}
  /\ DOMAIN ElementsOf = Rank
  /\ \A r \in Rank : IsFiniteSet(ElementsOf[r])
  /\ \A e \in Element : VerticesOf[e] \subseteq Vertex
  /\ \A v \in Vertex : \E r \in Rank : v \in VerticesOn(r)

ASSUME GeometryAssumption ==
  /\ Bed \in [Vertex -> Int]
  /\ Thicknesses \in [Vertex -> SUBSET Nat]
  /\ \A v \in Vertex : \A h \in Thicknesses[v] : Draft[h] \in Nat
  /\ SeaLevels \subseteq [Vertex -> Int]
  /\ Masks \subseteq [Vertex -> Int]
  /\ Styles \subseteq {"SoftMigration", "AggressiveMigration", "SubelementMigration",
                       "GroundingOnly"}

VARIABLES
  pc,            \* pc[r]: what rank r does next, or the collective it waits in
  style,         \* the migration style of the run
  sealevel,      \* by vertex
  thickness,
  base,          \* by rank and vertex
  surface,
  levelset,      \* MaskGroundediceLevelset, by rank and vertex
  wants,         \* vertices_potentially_ungrounding
  vecphi,        \* the distributed vector, as last assembled
  pending,       \* pending[r]: vertices that r has set to -1 since then
  phi,           \* the serial copy of the vector, the same on every rank
  neighbors,     \* elements that neighbour the floating ice
  localflipped,  \* by rank
  shelf          \* (history) the vertices that floated when the flood began

geometry == <<style, sealevel, thickness, base, surface, levelset>>
flood    == <<vecphi, pending, phi, neighbors, localflipped, shelf>>
vars == <<pc, style, sealevel, thickness, base, surface, levelset, wants, vecphi,
          pending, phi, neighbors, localflipped, shelf>>

Goto(r, from, to) == pc[r] = from /\ pc' = [pc EXCEPT ![r] = to]
Collective(wait, to) == (\A r \in Rank : pc[r] = wait) /\ pc' = [r \in Rank |-> to]

Soft == style = "SoftMigration"
Floating(f) == {v \in Vertex : f[v] < 0}

\* The base of ice of thickness h that floats on the sea.
HydroBase(sl, h) == sl - Draft[h]

Flotation(v) == Draft[thickness[v]] + Bed[v] - sealevel[v]

-----------------------------------------------------------------------------
(***************************************************************************)
(* The rest of the time step: the sea level core leaves a sea level, mass  *)
(* transport solves for the thickness and puts floating ice in hydrostatic *)
(* equilibrium.                                                            *)
(***************************************************************************)
TransportedBase(r, v, sl, h) ==
  IF levelset[r][v] > 0 THEN base[r][v] ELSE HydroBase(sl[v], h[v])

NextThickness == {h \in [Vertex -> UNION {Thicknesses[v] : v \in Vertex}] :
                    \A v \in Vertex : h[v] \in Thicknesses[v]}

Transport ==
  /\ Collective("transport", IF Soft THEN "potential" ELSE "migrate")
  /\ \E sl \in SeaLevels, h \in NextThickness :
       /\ sealevel' = sl
       /\ thickness' = h
       /\ base' = [r \in Rank |-> [v \in VerticesOn(r) |-> TransportedBase(r, v, sl, h)]]
       /\ surface' = [r \in Rank |-> [v \in VerticesOn(r) |-> TransportedBase(r, v, sl, h) + h[v]]]
  /\ UNCHANGED <<style, levelset, wants, flood>>

-----------------------------------------------------------------------------
(***************************************************************************)
(* The flood of the soft migration.                                        *)
(***************************************************************************)

\* Grounded ice that could float.  The sea level is not in this test.
WantsToFloat(r, v) == levelset[r][v] > 0 /\ - Draft[thickness[v]] > Bed[v]

PotentialUngrounding ==
  /\ Collective("potential", "levelset")
  /\ wants' = {v \in Vertex : \E r \in Rank : v \in VerticesOn(r) /\ WantsToFloat(r, v)}
  /\ UNCHANGED <<geometry, flood>>

\* Every rank inserts its level set; the ranks are applied in order.
LastRank(v) == MaxOf({r \in Rank : v \in VerticesOn(r)})

AssembleLevelset ==
  /\ Collective("levelset", "neighbors")
  /\ vecphi' = [v \in Vertex |-> levelset[LastRank(v)][v]]
  /\ phi' = vecphi'
  /\ shelf' = Floating(vecphi')
  /\ UNCHANGED <<geometry, wants, pending, neighbors, localflipped>>

IsNodeOnShelfFromFlags(e) == \E v \in VerticesOf[e] : phi[v] < 0

AssembleNeighbors ==
  /\ Collective("neighbors", "propagate")
  /\ neighbors' = {e \in Element : IsNodeOnShelfFromFlags(e)}
  /\ UNCHANGED <<geometry, wants, vecphi, pending, phi, localflipped, shelf>>

\* (mutant) the vertices that do not want to float are taken as well
Reached_All(r) == UNION {VerticesOf[e] : e \in ElementsOf[r] \cap neighbors}

\* (mutant) a rank that has a neighbour of the ice turns all the vertices that want
Reached_Everywhere(r) == IF ElementsOf[r] \cap neighbors # {} THEN wants ELSE {}

\* The vertices that rank r sets to -1 in this round.
Reached(r) == wants \cap UNION {VerticesOf[e] : e \in ElementsOf[r] \cap neighbors}

\* (mutant) a vertex counts again in every round
Flips_Again(r) ==
  {p \in (ElementsOf[r] \cap neighbors) \X wants : p[2] \in VerticesOf[p[1]]}

\* A vertex counts once in each element of the rank, if it was not floating in
\* the serial copy.
Flips(r) ==
  {p \in (ElementsOf[r] \cap neighbors) \X wants : p[2] \in VerticesOf[p[1]] /\ phi[p[2]] >= 0}

UpdatePotentialUngrounding(r) ==
  /\ Goto(r, "propagate", "flips")
  /\ pending' = [pending EXCEPT ![r] = Reached(r)]
  /\ localflipped' = [localflipped EXCEPT ![r] = Cardinality(Flips(r))]
  /\ UNCHANGED <<geometry, wants, vecphi, phi, neighbors, shelf>>

\* What rank r is told: the sum of the counts.
Flipped(r) == RunningSum(localflipped, NumProcs)

\* The vector is assembled, the counts are summed, and the copy is renewed.
AssembleFlips ==
  /\ \A r \in Rank : pc[r] = "flips"
  /\ vecphi' = [v \in Vertex |-> IF \E r \in Rank : v \in pending[r] THEN -1 ELSE vecphi[v]]
  /\ pending' = [r \in Rank |-> {}]
  /\ phi' = vecphi'
  /\ pc' = [r \in Rank |-> IF Flipped(r) # 0 THEN "neighbors" ELSE "migrate"]
  /\ UNCHANGED <<geometry, wants, neighbors, localflipped, shelf>>

-----------------------------------------------------------------------------
(***************************************************************************)
(* Update of the geometry.                                                 *)
(***************************************************************************)
Grounding(r, v) == style = "GroundingOnly" /\ base[r][v] < Bed[v]

TouchesBed(r, v) == ~Grounding(r, v) /\ levelset[r][v] <= 0 /\ base[r][v] <= Bed[v]

\* (mutant) the soft migration lifts every vertex that can float
Lifts_Unconnected(r, v) ==
  /\ levelset[r][v] > 0
  /\ HydroBase(sealevel[v], thickness[v]) > Bed[v]
  /\ style # "GroundingOnly"

\* (mutant) a rank looks at its own elements instead of the vector
Lifts_OwnElements(r, v) ==
  /\ levelset[r][v] > 0
  /\ HydroBase(sealevel[v], thickness[v]) > Bed[v]
  /\ Soft => \E e \in ElementsOf[r] \cap neighbors : v \in VerticesOf[e]
  /\ style # "GroundingOnly"

Lifts(r, v) ==
  /\ levelset[r][v] > 0
  /\ HydroBase(sealevel[v], thickness[v]) > Bed[v]
  /\ style \in {"AggressiveMigration", "SubelementMigration"} \/ (Soft /\ phi[v] < 0)

MigratedBase(r, v) ==
  IF Grounding(r, v) \/ TouchesBed(r, v) THEN Bed[v]
  ELSE IF Lifts(r, v) THEN HydroBase(sealevel[v], thickness[v])
  ELSE base[r][v]

MigratedSurface(r, v) ==
  IF TouchesBed(r, v) THEN Bed[v] + thickness[v]
  ELSE IF Lifts(r, v) THEN HydroBase(sealevel[v], thickness[v]) + thickness[v]
  ELSE surface[r][v]

\* (mutant) the level set is recomputed for the soft migration too
KeepsLevelset_Never(r, v) == FALSE

\* Grounded ice that could float, and was not reached, stays grounded.
KeepsLevelset(r, v) ==
  Soft /\ levelset[r][v] >= 0 /\ HydroBase(sealevel[v], thickness[v]) > Bed[v] /\ phi[v] >= 0

MigratedLevelset(r, v) == IF KeepsLevelset(r, v) THEN levelset[r][v] ELSE Flotation(v)

MigrateGroundingLine(r) ==
  /\ Goto(r, "migrate", "transport")
  /\ base' = [base EXCEPT ![r] = [v \in VerticesOn(r) |-> MigratedBase(r, v)]]
  /\ surface' = [surface EXCEPT ![r] = [v \in VerticesOn(r) |-> MigratedSurface(r, v)]]
  /\ levelset' = [levelset EXCEPT ![r] = [v \in VerticesOn(r) |-> MigratedLevelset(r, v)]]
  /\ UNCHANGED <<style, sealevel, thickness, wants, flood>>

-----------------------------------------------------------------------------
InitBase(v, f, sl, h) ==
  IF f[v] > 0 \/ HydroBase(sl[v], h[v]) < Bed[v] THEN Bed[v] ELSE HydroBase(sl[v], h[v])

\* A model that the user has built and that the consistency checks have passed:
\* the mask is any, grounded ice rests on the bed, floating ice is above it.
Init ==
  /\ pc = [r \in Rank |-> "transport"]
  /\ style \in Styles
  /\ sealevel \in SeaLevels
  /\ thickness \in NextThickness
  /\ \E f \in Masks :
       /\ levelset = [r \in Rank |-> [v \in VerticesOn(r) |-> f[v]]]
       /\ base = [r \in Rank |-> [v \in VerticesOn(r) |-> InitBase(v, f, sealevel, thickness)]]
       /\ shelf = Floating(f)
  /\ surface = [r \in Rank |-> [v \in VerticesOn(r) |-> base[r][v] + thickness[v]]]
  /\ wants = {}
  /\ vecphi = [v \in Vertex |-> 0]
  /\ pending = [r \in Rank |-> {}]
  /\ phi = [v \in Vertex |-> 0]
  /\ neighbors = {}
  /\ localflipped = [r \in Rank |-> 0]

CollectiveStep ==
  \/ Transport
  \/ PotentialUngrounding
  \/ AssembleLevelset
  \/ AssembleNeighbors
  \/ AssembleFlips

LocalStep(r) == UpdatePotentialUngrounding(r) \/ MigrateGroundingLine(r)

Next == CollectiveStep \/ \E r \in Rank : LocalStep(r)

Spec == Init /\ [][Next]_vars

\* No rank stops between two collectives, and MPI completes a collective that
\* all the ranks have entered.
FairSpec == Spec /\ WF_vars(CollectiveStep) /\ \A r \in Rank : WF_vars(LocalStep(r))

-----------------------------------------------------------------------------
(***************************************************************************)
(* Properties.                                                             *)
(***************************************************************************)
PC == {"transport", "potential", "levelset", "neighbors", "propagate", "flips", "migrate"}
Inputs(f) == DOMAIN f = Rank /\ \A r \in Rank : f[r] \in [VerticesOn(r) -> Int]

\* Every variable has its type; a rank only writes to the vertices of its elements
\* that want to float.
TypeOK ==
  /\ pc \in [Rank -> PC]
  /\ style \in Styles
  /\ sealevel \in SeaLevels
  /\ thickness \in NextThickness
  /\ Inputs(base)
  /\ Inputs(surface)
  /\ Inputs(levelset)
  /\ wants \subseteq Vertex
  /\ vecphi \in [Vertex -> Int]
  /\ phi \in [Vertex -> Int]
  /\ DOMAIN pending = Rank
  /\ \A r \in Rank : pending[r] \subseteq VerticesOn(r)
  /\ neighbors \subseteq Element
  /\ localflipped \in [Rank -> Nat]
  /\ shelf \subseteq Vertex

\* The sets of vertices that the flood may stop at: those that contain, with one
\* vertex of an element, all the vertices of the element that are in W.
ClosedIn(S, W) ==
  \A e \in Element : VerticesOf[e] \cap S # {} => VerticesOf[e] \cap W \subseteq S

Flooded(r) == Soft /\ pc[r] = "migrate"

\* The flood reaches the smallest closed set of vertices that contains the shelf it
\* started from.  It does not go too far: at any time, what floats is in every such
\* set.  It does not stop early: once a rank updates its geometry, ice that wants to
\* float and shares an element with floating ice floats, whichever ranks have the
\* elements in between.
FloodIsLeastClosed ==
  \A r \in Rank :
    /\ pc[r] \in {"neighbors", "propagate", "flips"} \/ Flooded(r) =>
         \A S \in SUBSET Vertex : shelf \subseteq S /\ ClosedIn(S, wants) => Floating(phi) \subseteq S
    /\ Flooded(r) => ClosedIn(Floating(phi), wants)

Done == \A r \in Rank : pc[r] = "transport"

\* The geometry that groundingline.m asks of a model before a run still holds at the
\* end of every time step: grounded ice rests on the bed, floating ice is not below it.
GeometryIsConsistent ==
  Done => \A r \in Rank : \A v \in VerticesOn(r) :
    IF levelset[r][v] > 0 THEN base[r][v] = Bed[v] ELSE base[r][v] >= Bed[v]

\* The ranks leave the flood after the same round (those that wait in a collective
\* wait in the same one), and those that share a vertex end with the same ice there.
RanksAgree ==
  LET Waiting(r) == pc[r] \notin {"propagate", "migrate"}
  IN  /\ \A r1, r2 \in Rank : Waiting(r1) /\ Waiting(r2) => pc[r1] = pc[r2]
      /\ Done => \A r1, r2 \in Rank : \A v \in VerticesOn(r1) \cap VerticesOn(r2) :
           /\ levelset[r1][v] = levelset[r2][v]
           /\ base[r1][v] = base[r2][v]
           /\ surface[r1][v] = surface[r2][v]

FloatingNow == {v \in Vertex : \E r \in Rank : v \in VerticesOn(r) /\ levelset[r][v] < 0}

\* Ice floats after a soft migration only if a chain of floating vertices connects
\* it to the shelf (Element::MigrateGroundingLine: "Unground only if the element is
\* connected to the ice shelf").
UngroundingIsConnected ==
  Soft /\ Done => \A S \in SUBSET Vertex :
    shelf \subseteq S /\ ClosedIn(S, FloatingNow) => FloatingNow \subseteq S

\* The same where the sea is at the datum, as PotentialUngrounding assumes.
UngroundingIsConnectedAtDatum ==
  (\A v \in Vertex : sealevel[v] = 0) => UngroundingIsConnected

\* Every flood ends, and every rank gets to update its geometry.
FloodTerminates == \A r \in Rank : pc[r] = "potential" ~> pc[r] = "migrate"

=============================================================================

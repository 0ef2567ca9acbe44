-------------------------- MODULE MCGroundingLine --------------------------
(***************************************************************************)
(* A strip of four triangles over six vertices, shared by two ranks whose  *)
(* elements alternate, so that the flood has to cross from one rank to the *)
(* other and back.  Thick ice is grounded everywhere; thin ice floats over *)
(* the deep bed and not over the sill, vertex 4.                           *)
(***************************************************************************)
EXTENDS GroundingLine

MCElementsOf == [r \in 0..1 |-> IF r = 0 THEN {0, 2} ELSE {1, 3}]
MCVerticesOf == [e \in 0..3 |-> {e, e + 1, e + 2}]
MCBed == [v \in 0..5 |-> IF v = 4 THEN -1 ELSE -3]
MCDraft == [h \in {2, 4} |-> IF h = 2 THEN 2 ELSE 4]
MCThicknesses == [v \in 0..5 |-> IF v \in {1, 2, 3} THEN {2, 4} ELSE {2}]
MCSeaLevels == {[v \in 0..5 |-> l] : l \in {0, 2}}
MCStyles == {"SoftMigration", "AggressiveMigration", "GroundingOnly"}

\* Soft migration with a sea that has fallen at vertices 1 and 2.
MCSoft == {"SoftMigration"}
MCLowSeaLevels == {[v \in 0..5 |-> IF v \in {1, 2} THEN -2 ELSE 0]}

\* The shelf is at the left, at both ends, in the middle, or nowhere; in the last
\* mask it meets vertices on the grounding line itself.
Shelf(S) == [v \in 0..5 |-> IF v \in S THEN -1 ELSE 1]
MCMasks == {Shelf({0}), Shelf({0, 5}), Shelf({2}), Shelf({}),
            [v \in 0..5 |-> IF v = 0 THEN -1 ELSE IF v < 3 THEN 0 ELSE 1]}
=============================================================================

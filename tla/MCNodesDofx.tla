---------------------------- MODULE MCNodesDofx ----------------------------
(***************************************************************************)
(* Three ranks around four nodes.  Node 1 is on the border of all three    *)
(* ranks, node 0 on the border of ranks 1 and 2, node 2 is inside rank 2,  *)
(* and node 3 was frozen at its creation.  Node 1 has a transient          *)
(* constraint, node 2 a static and node 0 a dynamic one.                   *)
(***************************************************************************)
EXTENDS NodalConstraints

MCHolds == [r \in 0..2 |-> CASE r = 0 -> {1, 3} [] r = 1 -> {0, 1} [] r = 2 -> {0, 1, 2}]
MCGSize == [s \in 0..3 |-> IF s \in {0, 3} THEN 1 ELSE 2]
MCFrozen == {3}
MCStaticSpc == [s \in 0..3 |-> IF s \in {0, 2} THEN {0} ELSE {}]
MCDynamicSpc == [s \in 0..3 |-> IF s = 0 THEN {0} ELSE {}]
MCTransientSpc == [s \in 0..3 |-> IF s = 1 THEN {1} ELSE {}]

\* Two ranks with one element each.  Node 0 of rank 0 is paired with node 1 of
\* rank 1, so that rank 0 holds a copy of node 1 that belongs to none of its
\* elements; being the lowest rank it is the master of node 1.
PairedHolds    == [r \in 0..1 |-> IF r = 0 THEN {0, 1} ELSE {1}]
PairedAttached == [r \in 0..1 |-> {r}]
PairedGSize    == [s \in 0..1 |-> 1]
NoSpc          == [s \in 0..1 |-> {}]
=============================================================================

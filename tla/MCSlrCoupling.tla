---------------------------- MODULE MCSlrCoupling ----------------------------
(***************************************************************************)
(* Two ice caps on an earth of four vertices.  They share vertex 2, the    *)
(* second ice cap has two places there, and no ice cap has vertex 4.       *)
(***************************************************************************)
EXTENDS SlrCoupling

MCNumVertices == [m \in 0..2 |-> CASE m = 0 -> 2 [] m = 1 -> 3 [] m = 2 -> 4]
MCTransitions == [i \in 0..1 |-> IF i = 0 THEN <<1, 2>> ELSE <<2, 3, 2>>]

\* Two steps for each model, or one less for one of them; with and without records.
MCSettings ==
  [steps : {[m \in 0..2 |-> 2]} \cup {[m \in 0..2 |-> IF m = short THEN 1 ELSE 2] : short \in 0..2},
   recording : {[m \in 0..2 |-> 0], [m \in 0..2 |-> IF m = 0 THEN 1 ELSE 2]},
   eager : BOOLEAN]
=============================================================================

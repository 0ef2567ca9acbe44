------------------------------ MODULE MCMpiVec ------------------------------
(***************************************************************************)
(* Three ranks and two rows.  Rank 0 owns a row and gives no value, rank 1 *)
(* owns no row, as a rank whose nodes are all clones.  The values of ranks *)
(* 1 and 2 differ, so that the order of two insertions can be seen.  Every *)
(* rank assembles twice before it takes a copy.                            *)
(***************************************************************************)
EXTENDS MpiVec

MCm == [r \in 0..2 |-> IF r = 1 THEN 0 ELSE 1]
MCValues == [r \in 0..2 |-> IF r = 0 THEN {} ELSE {r}]
MCProgram == <<"Assemble", "Assemble", "ToMPISerial">>
=============================================================================

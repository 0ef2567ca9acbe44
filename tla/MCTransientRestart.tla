------------------------- MODULE MCTransientRestart -------------------------
(***************************************************************************)
(* Two or three ranks over seven units of time.  The elements of rank 0    *)
(* ask for short steps at first, those of the others later, and the last   *)
(* adapted step goes beyond the final time.  Steps are recorded at other   *)
(* times than they are saved.                                              *)
(***************************************************************************)
EXTENDS TransientRestart

MCCfl == [r \in Rank |-> [t \in 0..(FinalTime - 1) |->
            IF r = 0 /\ t < 3 THEN 1 ELSE IF r = 0 THEN 4 ELSE 3]]
MCSettings ==
  [adapt : BOOLEAN, output : {2}, recording : {1, 3}] \cup
  {[adapt |-> FALSE, output |-> 3, recording |-> 0]}

\* Every step is saved, every second one is recorded.
MCPlain == {[adapt |-> FALSE, output |-> 1, recording |-> 2]}
=============================================================================

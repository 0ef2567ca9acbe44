------------------------ MODULE MCSolutionSequences ------------------------
(***************************************************************************)
(* Two ranks with a triangle each, {1, 2, 3} and {2, 3, 4}, and two rift   *)
(* segments each, one of which the user has closed.                        *)
(***************************************************************************)
EXTENDS SolutionSequences

MCNodesOf == [r \in 0..1 |-> IF r = 0 THEN {1, 2, 3} ELSE {2, 3, 4}]
MCElementsOf == [r \in 0..1 |-> <<r>>]
MCVerticesOf == [e \in 0..1 |-> IF e = 0 THEN <<1, 2, 3>> ELSE <<2, 4, 3>>]
MCPengrids == [a \in {"thermal", "hydrology"} |-> IF a = "thermal" THEN {1, 2, 4} ELSE 1..4]
MCPenaltyLock == [a \in {"thermal", "hydrology"} |-> IF a = "thermal" THEN 1 ELSE 0]
MCRiftsOf == [r \in 0..1 |-> IF r = 0 THEN {"a", "b"} ELSE {"c", "d"}]
MCRiftState == [f \in {"a", "b", "c", "d"} |-> IF f = "d" THEN "closed" ELSE "free"]
MCMasks == {{}, {2, 3}}

Set(thermal, hydrology, stressbalance) ==
  [thermal |-> thermal, hydrology |-> hydrology, stressbalance |-> stressbalance]

MCSettings ==
  {Set("dry", "one", "nonlinear"), Set("enthalpy", "two", "newton"), Set("none", "one", "nonlinear"),
   Set("none", "none", "stokescoupling"), Set("none", "none", "la"), Set("dry", "none", "la_theta")}

\* Where the penalties ask to be active: no rank, one of them, or both.
MCOvers == {{}, {1}, {1, 4}, {2, 4}}

Slope(up) == [n \in 1..4 |-> IF up THEN n ELSE 4 - n]

\* Water comes up at 1 or at 3; the layer is full at 2 and 3 and grows down the slope;
\* it is thin at 2 and 3, with a full neighbour.
MCEplFields ==
  {[thin |-> {}, residual |-> {1, 3}, full |-> {}, sedhead |-> Slope(TRUE)],
   [thin |-> {}, residual |-> {}, full |-> {2, 3}, sedhead |-> Slope(FALSE)],
   [thin |-> {2, 3}, residual |-> {}, full |-> {1, 4}, sedhead |-> Slope(TRUE)]}
=============================================================================
